---- MODULE Spec2Model ----
(***************************************************************************)
(* Verification model of the OpenRouter CLI core:                          *)
(*   - the transport client's retry loop (doWithRetry and its helpers),    *)
(*   - the SSE StreamReader (Next / Close / ReadAll),                      *)
(*   - the stream session (StreamState), its producer goroutine and the    *)
(*     UI's poll primitive (waitForChunk) with the chat Update handlers.   *)
(* Each part has its own specification; the variables of the parts a       *)
(* specification does not exercise stay at their initial values.           *)
(***************************************************************************)
EXTENDS Integers, Sequences, FiniteSets, TLC

\* ------------------------------------------------------------------------
\* Bounds of the model
\* ------------------------------------------------------------------------

\* largest MaxRetries of the retry configurations explored
MaxM == 2

\* largest number of lines of an SSE body handed to a StreamReader
MaxLines == 3

\* largest number of Close calls made on one StreamReader
MaxCloses == 2

\* largest number of Next calls on a StreamReader that return (nil, nil);
\* each of them leaves the reader as it found it
MaxNilCalls == 1

\* largest number of lines of the SSE body of a generation
MaxStreamLines == 3

\* Number of chunks the chunk channel of a stream session buffers.
\* NewStreamState allocates 100 slots; a full channel blocks its sender in
\* the same way at any capacity, and the model explores a small one.
ChunkCap == 1

\* ESC timeout ticks that may be in flight at a time
MaxEscTicks == 2

\* chunk messages the chat model is handed in a generation
MaxChunkMsgs == 2

\* most attempts followed when every attempt fails with the same error
MaxAttempts == 36

\* longest input history followed for the history navigator by itself
MaxHistory == 3

\* the longest list of content parts of a message
MaxParts == 2

\* ------------------------------------------------------------------------
\* Variables
\* ------------------------------------------------------------------------

VARIABLES
    \* --- transport client (one call of doWithRetry) ---
    retry,      \* c.retry: Nil (retries disabled) or a RetryConfig record
    call,       \* which client method runs: "Chat", "ChatStream", "ListModels"
    attempt,    \* the loop variable of doWithRetry
    rpc,        \* position of the call: "loop", "sleep", "returned"
    ctxDone,    \* the request context has been cancelled
    served,     \* history: the outcome reqFn obtained at each attempt
    lastErr,    \* doWithRetry's lastErr
    backoffs,   \* history: the durations handed to sleep
    ret         \* the (value, error) pair the call returned

VARIABLES
    \* --- the request of the call and the responses it obtained ---
    req,        \* the caller's ChatRequest (*req), Nil when no call is followed
    jsonBody,   \* the body the client method marshalled, Nil before and for GET
    sent,       \* history: the body reqFn sent at each attempt
    closes      \* history: the Close calls the client made on the body of
                \* the response of each attempt (0 when there was none)

VARIABLES
    \* --- wire format: one Message through json.Marshal and json.Unmarshal ---
    original,   \* the Message that is encoded
    encoded,    \* the JSON text MarshalJSON produced, Nil before it ran
    decoded     \* the Message UnmarshalJSON filled in, Nil before it ran

VARIABLES
    \* --- StreamReader ---
    body,       \* the lines of the SSE response body, in transport order
    bodyEnd,    \* how the transport ends after the last line: "eof" or "err"
    pos,        \* number of lines the reader's scanner has consumed
    rdone,      \* r.done
    bodyCloses, \* history: number of Close calls made on the reader itself
    results,    \* history: the (chunk, error) pair of every Next call
    closedAt,   \* history: Len(results) at the first Close, -1 before it
    readAll     \* history: the ReadAll calls, with Len(results) at the call

VARIABLES
    \* --- stream session (StreamState) ---
    chunks,         \* s.chunks: the buffered chunks, oldest first
    chunksClosed,   \* number of executions of close(s.chunks)
    errChan,        \* s.errChan: the buffered error, if any
    errClosed,      \* number of executions of close(s.errChan)
    done,           \* s.done
    reader,         \* s.reader is set
    \* --- producer goroutine of StartStream ---
    ppc,            \* its position
    pchunk,         \* the chunk content it is about to send
    perr,           \* the terminal error it got, Nil if none
    overlapped,     \* the reader was closed during the Next call in progress
    \* --- UI loop ---
    upc,            \* "cmd", "poll", "select" (a poll command is running),
                    \* "msg" (a message awaits Update), "idle" (no poll)
    pollMsg,        \* the message waitForChunk returned, Nil once Update took it
    polled,         \* history: the messages delivered to Update
    currentContent, \* m.currentContent
    messages,       \* m.messages
    streaming,      \* m.streaming
    err,            \* m.err
    \* --- consumer-side cancellation ---
    cancelled,      \* history: the consumer has called Cancel
    cclosed,        \* history: the consumer has called Close
    gaveUpAt        \* history: where the producer stood at the consumer's
                    \* first Cancel or Close, "never" before it

VARIABLES
    \* --- chat model: input handling (Model fields next to the stream's) ---
    textarea,           \* m.textarea.Value(), the draft
    autocomplete,       \* m.autocomplete: [visible, index, filtered]
    ShowingPicker,      \* m.ShowingPicker
    ShowingModelPicker, \* m.ShowingModelPicker
    escTimeoutActive,   \* m.escTimeoutActive
    escActionIsExit,    \* m.escActionIsExit
    escElapsed,         \* time.Now().Sub(m.escPressedAt) >= 2 s
    escTicks,           \* EscTimeoutMsg ticks scheduled and not yet delivered
    history,            \* m.history: [history, index, draft]
    session,            \* m.session: [History, Messages]
    quit,               \* Update has returned tea.Quit
    lastInput,          \* history: the last input event Update handled during
                        \* the generation in progress, "none" outside of one
    submitted           \* history: the conversation before the last submit
                        \* and the input submitted, Nil before any

sessionVars == <<chunks, chunksClosed, errChan, errClosed, done, reader>>

producerVars == <<ppc, pchunk, perr, overlapped>>

uiVars == <<upc, pollMsg, polled, currentContent, messages, streaming, err>>

consumerVars == <<cancelled, cclosed, gaveUpAt>>

streamVars == <<sessionVars, producerVars, uiVars, consumerVars>>

draftVars == <<textarea, autocomplete>>

overlayVars == <<ShowingPicker, ShowingModelPicker>>

escVars == <<escTimeoutActive, escActionIsExit, escElapsed, escTicks>>

inputVars == <<draftVars, overlayVars, escVars, history, session, quit, lastInput, submitted>>

codecVars == <<original, encoded, decoded>>

requestVars == <<req, jsonBody, sent, closes>>

retryVars ==
    <<retry, call, attempt, rpc, ctxDone, served, lastErr, backoffs, ret,
      requestVars, codecVars>>

readerVars == <<body, bodyEnd, pos, rdone, bodyCloses, results, closedAt, readAll>>

\* what runs behind the UI loop: the session, the producer, the consumer's
\* cancellation, the transport client and the reader
backgroundVars == <<sessionVars, producerVars, consumerVars, retryVars, readerVars>>

\* everything but the transport client's variables
notRetryVars == <<readerVars, streamVars, inputVars>>

\* everything but the StreamReader's variables
notReaderVars == <<retryVars, streamVars, inputVars>>

vars == <<retryVars, readerVars, streamVars, inputVars>>

Nil == [type |-> "nil"]

\* ------------------------------------------------------------------------
\* Transport client: retry loop
\* ------------------------------------------------------------------------

\* status codes the server may answer with
StatusCodes == {200, 299, 300, 404, 429, 500, 503, 504}

\* isSuccessStatus returns true if the status code indicates success (2xx).
isSuccessStatus(code) == code >= 200 /\ code < 300

\* variant of isRetryableStatus that also retries client errors
isRetryableStatus_clientErrors(code) ==
    \/ code = 429
    \/ code = 503
    \/ code = 504
    \/ code >= 400

\* variant of isRetryableStatus that forgets the general 5xx case
isRetryableStatus_listedOnly(code) ==
    \/ code = 429
    \/ code = 503
    \/ code = 504

\* isRetryableStatus: 429, 503, 504 or any code >= 500.
isRetryableStatus(code) ==
    \/ code = 429
    \/ code = 503
    \/ code = 504
    \/ code >= 500

\* What one execution of reqFn can produce: a transport error, or a
\* response with a status code and a body.  The body of a 2xx response is
\* a valid payload, a payload with an embedded error object, or not JSON;
\* the body of another response is text, or fails while being read.
\* A 404 comes with either of two texts.
Outcomes ==
    {[kind |-> "neterr", code |-> 0, body |-> "none"]}
    \cup {[kind |-> "resp", code |-> c, body |-> b] :
            c \in {s \in StatusCodes : isSuccessStatus(s)},
            b \in {"valid", "embedded", "malformed"}}
    \cup {[kind |-> "resp", code |-> c, body |-> "text"] :
            c \in {s \in StatusCodes : ~isSuccessStatus(s)}}
    \cup {[kind |-> "resp", code |-> c, body |-> "readerr"] : c \in {404, 503}}
    \cup {[kind |-> "resp", code |-> 404, body |-> "not found"]}

\* time.Duration is an int64: a value is its 64 bits in two's complement,
\* bit 0 the least significant.  Int64(n) is the value of 0 <= n < 2^31.
RECURSIVE Pow2(_)
Pow2(i) == IF i = 0 THEN 1 ELSE 2 * Pow2(i - 1)

Int64(n) == [i \in 0..63 |-> IF i <= 30 THEN (n \div Pow2(i)) % 2 ELSE 0]

\* v * 2 at the width of v: the top bit is lost
Mul2(v) == [i \in DOMAIN v |-> IF i = 0 THEN 0 ELSE v[i - 1]]

\* a > b for signed values of one width
Gt(a, b) ==
    LET top == Cardinality(DOMAIN a) - 1 IN
    IF a[top] # b[top]
    THEN a[top] = 0
    ELSE \E i \in DOMAIN a : a[i] > b[i] /\ \A j \in (i + 1)..top : a[j] = b[j]

\* DefaultInitialBackoff = 500 * time.Millisecond, in nanoseconds
DefaultInitialBackoff == Int64(500000000)

\* DefaultMaxBackoff = 5 * time.Second = 4 * 1250000000 ns
DefaultMaxBackoff == Mul2(Mul2(Int64(1250000000)))

\* the backoff pairs of the configurations followed: 1 ns up to 3 ns, a
\* constant 2 ns, the 10 ms up to 50 ms of the client's tests, the defaults
BackoffPairs ==
    {<<Int64(1), Int64(3)>>, <<Int64(2), Int64(2)>>}

LongBackoffPairs ==
    {<<Int64(10000000), Int64(50000000)>>,
     <<DefaultInitialBackoff, DefaultMaxBackoff>>,
     <<Int64(1073741824), Int64(2000000000)>>}

RetryConfigs ==
    {[MaxRetries |-> m, InitialBackoff |-> b[1], MaxBackoff |-> b[2]] :
        m \in 0..MaxM, b \in BackoffPairs}

\* configurations with many retries
LongRetryConfigs ==
    {[MaxRetries |-> MaxAttempts, InitialBackoff |-> b[1], MaxBackoff |-> b[2]] :
        b \in LongBackoffPairs}

\* variant of shouldRetry whose attempt bound is off by one
shouldRetry_offByOne(neterr, statusCode, att) ==
    IF retry = Nil \/ att > retry.MaxRetries
    THEN FALSE
    ELSE IF neterr THEN TRUE
    ELSE isRetryableStatus(statusCode)

\* shouldRetry determines if a request should be retried.
shouldRetry(neterr, statusCode, att) ==
    IF retry = Nil \/ att >= retry.MaxRetries
    THEN FALSE
    ELSE IF neterr THEN TRUE
    ELSE isRetryableStatus(statusCode)

RECURSIVE Doubled(_, _)
Doubled(b, n) == IF n = 0 THEN b ELSE Doubled(Mul2(b), n - 1)

\* calculateBackoff: InitialBackoff doubled attempt times, capped at MaxBackoff.
calculateBackoff(att) ==
    IF retry = Nil THEN Int64(0)
    ELSE LET backoff == Doubled(retry.InitialBackoff, att)
         IN  IF Gt(backoff, retry.MaxBackoff) THEN retry.MaxBackoff ELSE backoff

\* the error doWithRetry records for a failed attempt
AttemptError(o) ==
    IF o.kind = "neterr"
    THEN [type |-> "sending request", StatusCode |-> 0, Body |-> "none"]
    ELSE IF o.body = "readerr"
    THEN [type |-> "APIError", StatusCode |-> o.code, Body |-> "failed to read error body"]
    ELSE [type |-> "APIError", StatusCode |-> o.code, Body |-> o.body]

\* variant of handleFn whose Chat handler does not look at the embedded error
handleFn_ignoresEmbedded(c, o) ==
    CASE c = "Chat" ->
            IF o.body = "malformed"
            THEN [val |-> Nil, err |-> [type |-> "decoding response", StatusCode |-> 0, Body |-> "none"]]
            ELSE [val |-> [type |-> "ChatResponse", code |-> o.code], err |-> Nil]
      [] c = "ChatStream" ->
            [val |-> [type |-> "StreamReader", code |-> o.code], err |-> Nil]
      [] OTHER ->
            IF o.body = "malformed"
            THEN [val |-> Nil, err |-> [type |-> "decoding response", StatusCode |-> 0, Body |-> "none"]]
            ELSE [val |-> [type |-> "Models", code |-> o.code], err |-> Nil]

\* the response handlers of Chat, ChatStream and ListModels
handleFn(c, o) ==
    CASE c = "Chat" ->
            IF o.body = "malformed"
            THEN [val |-> Nil, err |-> [type |-> "decoding response", StatusCode |-> 0, Body |-> "none"]]
            ELSE IF o.body = "embedded"
            THEN [val |-> Nil, err |-> [type |-> "APIError", StatusCode |-> 0, Body |-> "embedded"]]
            ELSE [val |-> [type |-> "ChatResponse", code |-> o.code], err |-> Nil]
      [] c = "ChatStream" ->
            [val |-> [type |-> "StreamReader", code |-> o.code], err |-> Nil]
      [] OTHER ->
            IF o.body = "malformed"
            THEN [val |-> Nil, err |-> [type |-> "decoding response", StatusCode |-> 0, Body |-> "none"]]
            ELSE [val |-> [type |-> "Models", code |-> o.code], err |-> Nil]

\* variant of HandlerCloses in which the handler of ChatStream closes the
\* body too
HandlerCloses_streamToo(c) == 1

\* the Close calls the response handler of a method makes on the body:
\* Chat and ListModels defer resp.Body.Close(), ChatStream leaves the body
\* to the StreamReader
HandlerCloses(c) == IF c = "ChatStream" THEN 0 ELSE 1

\* the Close calls one iteration of doWithRetry makes on the body of the
\* response it obtained: none without a response, one after reading the
\* body of a non-2xx response, the handler's for a 2xx response
ClientCloses(c, o) ==
    IF o.kind = "neterr" THEN 0
    ELSE IF ~isSuccessStatus(o.code) THEN 1
    ELSE HandlerCloses(c)

\* variant of doWithRetry that does not check the context before a request
doWithRetry_noCtxCheck(o) ==
    /\ rpc = "loop"
    /\ Len(served) <= MaxAttempts
    /\ served' = Append(served, o)
    /\ sent' = Append(sent, jsonBody)
    /\ closes' = Append(closes, ClientCloses(call, o))
    /\ UNCHANGED <<req, jsonBody>>
    /\ IF o.kind = "resp" /\ isSuccessStatus(o.code)
       THEN /\ ret' = handleFn(call, o)
            /\ rpc' = "returned"
            /\ UNCHANGED <<lastErr, backoffs>>
       ELSE /\ lastErr' = AttemptError(o)
            /\ IF shouldRetry(o.kind = "neterr", o.code, attempt)
               THEN /\ backoffs' = Append(backoffs, calculateBackoff(attempt))
                    /\ rpc' = "sleep"
                    /\ ret' = ret
               ELSE /\ ret' = [val |-> Nil, err |-> lastErr']
                    /\ rpc' = "returned"
                    /\ backoffs' = backoffs
    /\ UNCHANGED <<retry, call, attempt, ctxDone>>
    /\ UNCHANGED <<codecVars, notRetryVars>>

\* doWithRetry, one iteration with a live context: reqFn runs and its
\* outcome is handled up to the return or up to the call of sleep.
doWithRetry(o) ==
    /\ rpc = "loop"
    /\ ~ctxDone
    /\ Len(served) <= MaxAttempts
    /\ served' = Append(served, o)
    /\ sent' = Append(sent, jsonBody)
    /\ closes' = Append(closes, ClientCloses(call, o))
    /\ UNCHANGED <<req, jsonBody>>
    /\ IF o.kind = "resp" /\ isSuccessStatus(o.code)
       THEN /\ ret' = handleFn(call, o)
            /\ rpc' = "returned"
            /\ UNCHANGED <<lastErr, backoffs>>
       ELSE /\ lastErr' = AttemptError(o)
            /\ IF shouldRetry(o.kind = "neterr", o.code, attempt)
               THEN /\ backoffs' = Append(backoffs, calculateBackoff(attempt))
                    /\ rpc' = "sleep"
                    /\ ret' = ret
               ELSE /\ ret' = [val |-> Nil, err |-> lastErr']
                    /\ rpc' = "returned"
                    /\ backoffs' = backoffs
    /\ UNCHANGED <<retry, call, attempt, ctxDone>>
    /\ UNCHANGED <<codecVars, notRetryVars>>

\* doWithRetry, the context check at the top of an iteration fails.
doWithRetryCtxErr ==
    /\ rpc = "loop"
    /\ ctxDone
    /\ ret' = [val |-> Nil, err |-> [type |-> "context error", StatusCode |-> 0, Body |-> "none"]]
    /\ rpc' = "returned"
    /\ UNCHANGED <<retry, call, attempt, ctxDone, served, lastErr, backoffs>>
    /\ UNCHANGED <<requestVars, codecVars, notRetryVars>>

\* sleep, the timer branch of the select: the backoff elapsed, the loop continues.
sleepElapsed ==
    /\ rpc = "sleep"
    /\ attempt' = attempt + 1
    /\ rpc' = "loop"
    /\ UNCHANGED <<retry, call, ctxDone, served, lastErr, backoffs, ret>>
    /\ UNCHANGED <<requestVars, codecVars, notRetryVars>>

\* sleep, the ctx.Done branch of the select: the call returns ctx.Err().
sleepCancelled ==
    /\ rpc = "sleep"
    /\ ctxDone
    /\ ret' = [val |-> Nil, err |-> [type |-> "ctx.Err", StatusCode |-> 0, Body |-> "none"]]
    /\ rpc' = "returned"
    /\ UNCHANGED <<retry, call, attempt, ctxDone, served, lastErr, backoffs>>
    /\ UNCHANGED <<requestVars, codecVars, notRetryVars>>

\* the caller cancels the request context while the call is running
cancelCtx ==
    /\ rpc # "returned"
    /\ ~ctxDone
    /\ ctxDone' = TRUE
    /\ UNCHANGED <<retry, call, attempt, rpc, served, lastErr, backoffs, ret>>
    /\ UNCHANGED <<requestVars, codecVars, notRetryVars>>

\* ------------------------------------------------------------------------
\* StreamReader
\* ------------------------------------------------------------------------

\* ------------------------------------------------------------------------
\* Wire format: Message.MarshalJSON and Message.UnmarshalJSON
\* ------------------------------------------------------------------------

\* Go strings are byte strings: "\\xff" is one that is not valid UTF-8
Texts == {"", "hello", "describe", "\\xff"}

\* encoding/json writes a string coerced to valid UTF-8: each invalid byte
\* becomes the replacement character U+FFFD
ToValidUTF8(s) == IF s = "\\xff" THEN "\\ufffd" ELSE s

\* JSON texts, by their structure
JSONString(s) == [json |-> "string", text |-> s]
JSONArray(items) == [json |-> "array", items |-> items]
JSONObject(members) == [json |-> "object", members |-> members]

\* json.Marshal of a string
MarshalString(s) == JSONString(ToValidUTF8(s))

\* json.Unmarshal of a JSON string into a string
UnmarshalString(j) == j.text

\* json.Marshal of a ContentPart: "type" always, "text" and "image_url"
\* unless empty (omitempty)
MarshalContentPart(p) ==
    LET names == {"type"}
                 \cup (IF p.Text # "" THEN {"text"} ELSE {})
                 \cup (IF p.ImageURL # Nil THEN {"image_url"} ELSE {})
    IN  JSONObject([n \in names |->
            IF n = "type" THEN MarshalString(p.Type)
            ELSE IF n = "text" THEN MarshalString(p.Text)
            ELSE JSONObject([url |-> MarshalString(p.ImageURL.URL)])])

\* json.Unmarshal of a JSON object into a zero ContentPart
UnmarshalContentPart(j) ==
    [Type |-> IF "type" \in DOMAIN j.members
              THEN UnmarshalString(j.members["type"]) ELSE "",
     Text |-> IF "text" \in DOMAIN j.members
              THEN UnmarshalString(j.members["text"]) ELSE "",
     ImageURL |-> IF "image_url" \in DOMAIN j.members
                  THEN [URL |-> UnmarshalString(j.members["image_url"].members["url"])]
                  ELSE Nil]

\* the zero Message, as "var decoded Message" declares it
ZeroMessage == [Role |-> "", Content |-> "", ContentParts |-> <<>>]

\* Message.MarshalJSON: content is the array of the parts when there are
\* parts, the plain string otherwise
MarshalJSON(m) ==
    IF Len(m.ContentParts) > 0
    THEN JSONObject([role |-> MarshalString(m.Role),
                     content |-> JSONArray([i \in 1..Len(m.ContentParts) |->
                                    MarshalContentPart(m.ContentParts[i])])])
    ELSE JSONObject([role |-> MarshalString(m.Role),
                     content |-> MarshalString(m.Content)])

\* the Text of the first part of type "text" from position i on, or the
\* content the message already has when there is none
RECURSIVE FirstText(_, _, _)
FirstText(parts, i, content) ==
    IF i > Len(parts) THEN content
    ELSE IF parts[i].Type = "text" THEN parts[i].Text
    ELSE FirstText(parts, i + 1, content)

\* variant of UnmarshalJSON that does not mirror the first text part
UnmarshalJSON_noMirror(m, j) ==
    LET raw == j.members
        role == [m EXCEPT !.Role = UnmarshalString(raw["role"])]
    IN  IF "content" \notin DOMAIN raw THEN role
        ELSE IF raw["content"].json = "string"
        THEN [role EXCEPT !.Content = UnmarshalString(raw["content"])]
        ELSE LET parts == [i \in 1..Len(raw["content"].items) |->
                            UnmarshalContentPart(raw["content"].items[i])]
             IN  [role EXCEPT !.ContentParts = parts]

\* Message.UnmarshalJSON into the message m: the role, then the content as
\* a string if it is one, else as an array of parts whose first text part
\* is copied into Content
UnmarshalJSON(m, j) ==
    LET raw == j.members
        role == [m EXCEPT !.Role = UnmarshalString(raw["role"])]
    IN  IF "content" \notin DOMAIN raw THEN role
        ELSE IF raw["content"].json = "string"
        THEN [role EXCEPT !.Content = UnmarshalString(raw["content"])]
        ELSE LET parts == [i \in 1..Len(raw["content"].items) |->
                            UnmarshalContentPart(raw["content"].items[i])]
             IN  [role EXCEPT !.ContentParts = parts,
                              !.Content = FirstText(parts, 1, role.Content)]

\* json.Marshal(original)
MarshalMessage ==
    /\ original # Nil
    /\ encoded = Nil
    /\ encoded' = MarshalJSON(original)
    /\ UNCHANGED <<original, decoded>>
    /\ UNCHANGED <<retry, call, attempt, rpc, ctxDone, served, lastErr, backoffs, ret>>
    /\ UNCHANGED <<requestVars, notRetryVars>>

\* json.Unmarshal(data, &decoded) with a zero decoded
UnmarshalMessage ==
    /\ encoded # Nil
    /\ decoded = Nil
    /\ decoded' = UnmarshalJSON(ZeroMessage, encoded)
    /\ UNCHANGED <<original, encoded>>
    /\ UNCHANGED <<retry, call, attempt, rpc, ctxDone, served, lastErr, backoffs, ret>>
    /\ UNCHANGED <<requestVars, notRetryVars>>

\* ------------------------------------------------------------------------
\* Client methods: the request body of Chat and ChatStream
\* ------------------------------------------------------------------------

JSONBool(b) == [json |-> "bool", value |-> b]

\* json.Marshal of a ChatRequest without modalities and image configuration
MarshalChatRequest(r) ==
    JSONObject([model |-> MarshalString(r.Model),
                messages |-> JSONArray([i \in 1..Len(r.Messages) |->
                                MarshalJSON(r.Messages[i])]),
                stream |-> JSONBool(r.Stream)])

\* the request of the client's tests
TestRequest ==
    [Model |-> "test-model",
     Messages |-> <<[Role |-> "user", Content |-> "hello", ContentParts |-> <<>>]>>,
     Stream |-> FALSE]

\* variant of RequestBody that marshals the caller's request as it is
RequestBody_callersFlag(c, r) ==
    IF c = "ListModels" THEN Nil ELSE MarshalChatRequest(r)

\* the body a client method sends: Chat and ChatStream marshal a copy of
\* the request with Stream set to false and to true, ListModels sends none
RequestBody(c, r) ==
    IF c = "ListModels" THEN Nil
    ELSE LET chatReq == [r EXCEPT !.Stream = (c = "ChatStream")]
         IN  MarshalChatRequest(chatReq)

\* Chat, ChatStream, ListModels up to the call of doWithRetry: the request
\* is copied, the flag set in the copy, the copy marshalled
clientCall ==
    /\ rpc = "call"
    /\ jsonBody' = RequestBody(call, req)
    /\ rpc' = "loop"
    /\ UNCHANGED <<req, sent, closes>>
    /\ UNCHANGED <<retry, call, attempt, ctxDone, served, lastErr, backoffs, ret>>
    /\ UNCHANGED <<codecVars, notRetryVars>>

\* A line is its text split at the marker the reader tests for: marker is
\* "" (no known prefix), ":" (comment), "event: " (another SSE field) or
\* "data: "; payload is the rest of the line.  The payload of a data line
\* is the sentinel, text that is not JSON, or a JSON object with its
\* "error" and "choices" members.  Text content is a sequence of characters.
NoText == [form |-> "text", error |-> Nil, choices |-> <<>>]
SentinelPayload == [form |-> "[DONE]", error |-> Nil, choices |-> <<>>]
GarbagePayload == [form |-> "{invalid}", error |-> Nil, choices |-> <<>>]
ObjectPayload(e, cs) == [form |-> "object", error |-> e, choices |-> cs]

Delta(content, finish) == [content |-> content, finish |-> finish]
ErrorMember(msg) == [type |-> "error", message |-> msg]

EmptyLine == [marker |-> "", payload |-> [NoText EXCEPT !.form = ""]]
CommentLine == [marker |-> ":", payload |-> NoText]
EventLine == [marker |-> "event: ", payload |-> NoText]
DataLine(p) == [marker |-> "data: ", payload |-> p]

LineKinds ==
    { EmptyLine, CommentLine, EventLine,
      DataLine(SentinelPayload),
      DataLine(GarbagePayload),
      DataLine(ObjectPayload(ErrorMember("rate limit"), <<Delta(<<"x">>, Nil)>>)),
      DataLine(ObjectPayload(Nil, <<>>)),
      DataLine(ObjectPayload(Nil, <<Delta(<<"a">>, Nil)>>)),
      DataLine(ObjectPayload(Nil, <<Delta(<<"b">>, "stop"), Delta(<<"c">>, Nil)>>)) }

SeqsUpTo(S, n) == UNION {[1..k -> S] : k \in 0..n}

\* strings.HasPrefix(line, prefix) for the prefixes the reader tests
HasPrefix(line, prefix) == line.marker = prefix

\* strings.TrimPrefix(line, "data: ")
TrimPrefix(line) == line.payload

\* variant of Unmarshal that loses the "error" member
Unmarshal_dropsError(data) ==
    IF data.form = "object"
    THEN [ok |-> TRUE, Error |-> Nil, Choices |-> data.choices]
    ELSE [ok |-> FALSE, Error |-> Nil, Choices |-> <<>>]

\* json.Unmarshal of a data payload into a ChatResponse
Unmarshal(data) ==
    IF data.form = "object"
    THEN [ok |-> TRUE, Error |-> data.error, Choices |-> data.choices]
    ELSE [ok |-> FALSE, Error |-> Nil, Choices |-> <<>>]

\* results of Next
NilResult == [chunk |-> Nil, err |-> Nil]
DoneChunk == [type |-> "chunk", Content |-> <<>>, Done |-> TRUE, FinishReason |-> Nil]
ContentChunk(c, f) == [type |-> "chunk", Content |-> c, Done |-> FALSE, FinishReason |-> f]
APIErrorMsg(msg) == [type |-> "APIError", Message |-> msg]
StreamError == [type |-> "StreamError", Message |-> "reading stream"]

\* variant of ScanEnded that reports a missing sentinel as an error
ScanEnded_eofIsError(e, p) ==
    [chunk |-> Nil, err |-> StreamError, pos |-> p, done |-> TRUE]

\* Next after scanner.Scan() returned false: a read error of the
\* transport is a StreamError, a plain end of input is a done chunk.
ScanEnded(e, p) ==
    IF e = "err"
    THEN [chunk |-> Nil, err |-> StreamError, pos |-> p, done |-> TRUE]
    ELSE [chunk |-> DoneChunk, err |-> Nil, pos |-> p, done |-> TRUE]

\* The scanning loop of Next from scanner position p: the result of the
\* call, the scanner position after it and the value it leaves in r.done.
RECURSIVE Scan(_, _, _)
Scan(b, e, p) ==
    IF p >= Len(b)
    THEN ScanEnded(e, p)
    ELSE LET line == b[p + 1]
             data == TrimPrefix(line)
             response == Unmarshal(data)
         IN  IF line = EmptyLine \/ HasPrefix(line, ":") THEN Scan(b, e, p + 1)
             ELSE IF ~HasPrefix(line, "data: ") THEN Scan(b, e, p + 1)
             ELSE IF data = SentinelPayload
             THEN [chunk |-> DoneChunk, err |-> Nil, pos |-> p + 1, done |-> TRUE]
             ELSE IF ~response.ok THEN Scan(b, e, p + 1)
             ELSE IF response.Error # Nil
             THEN [chunk |-> Nil, err |-> APIErrorMsg(response.Error.message),
                   pos |-> p + 1, done |-> TRUE]
             ELSE IF Len(response.Choices) > 0
             THEN [chunk |-> ContentChunk(response.Choices[1].content,
                                          response.Choices[1].finish),
                   err |-> Nil, pos |-> p + 1, done |-> FALSE]
             ELSE Scan(b, e, p + 1)

\* variant of NextOf without the r.done check
NextOf_ignoresDone(b, e, p, d) == Scan(b, e, p)

\* StreamReader.Next as a function of the reader's state
NextOf(b, e, p, d) ==
    IF d
    THEN [chunk |-> Nil, err |-> Nil, pos |-> p, done |-> TRUE]
    ELSE Scan(b, e, p)

\* StreamReader.ReadAll as a function of the reader's state: the content
\* and error it returns and the state it leaves.
RECURSIVE ReadAllOf(_, _, _, _, _)
ReadAllOf(b, e, p, d, content) ==
    LET r == NextOf(b, e, p, d)
    IN  IF r.err # Nil
        THEN [content |-> content, err |-> r.err, pos |-> r.pos, done |-> r.done]
        ELSE IF r.chunk = Nil \/ r.chunk.Done
        THEN [content |-> content, err |-> Nil, pos |-> r.pos, done |-> r.done]
        ELSE ReadAllOf(b, e, r.pos, r.done, content \o r.chunk.Content)

\* StreamReader.Next
Next ==
    /\ Len(results) < Len(body) + 2
    /\ Cardinality({i \in 1..Len(results) : results[i] = NilResult}) < MaxNilCalls
    /\ LET r == NextOf(body, bodyEnd, pos, rdone)
       IN  /\ results' = Append(results, [chunk |-> r.chunk, err |-> r.err])
           /\ pos' = r.pos
           /\ rdone' = r.done
    /\ UNCHANGED <<body, bodyEnd, bodyCloses, closedAt, readAll>>
    /\ UNCHANGED notReaderVars

\* variant of Close that only closes the body
Close_keepsDone ==
    /\ bodyCloses < MaxCloses
    /\ rdone' = rdone
    /\ bodyCloses' = bodyCloses + 1
    /\ closedAt' = IF closedAt = -1 THEN Len(results) ELSE closedAt
    /\ UNCHANGED <<body, bodyEnd, pos, results, readAll>>
    /\ UNCHANGED notReaderVars

\* StreamReader.Close
Close ==
    /\ bodyCloses < MaxCloses
    /\ rdone' = TRUE
    /\ bodyCloses' = bodyCloses + 1
    /\ closedAt' = IF closedAt = -1 THEN Len(results) ELSE closedAt
    /\ UNCHANGED <<body, bodyEnd, pos, results, readAll>>
    /\ UNCHANGED notReaderVars

\* StreamReader.ReadAll
ReadAll ==
    /\ Len(readAll) < 1
    /\ LET r == ReadAllOf(body, bodyEnd, pos, rdone, <<>>)
       IN  /\ readAll' = Append(readAll, [content |-> r.content, err |-> r.err,
                                         at |-> Len(results), closed |-> closedAt # -1])
           /\ pos' = r.pos
           /\ rdone' = r.done
    /\ UNCHANGED <<body, bodyEnd, bodyCloses, results, closedAt>>
    /\ UNCHANGED notReaderVars

\* ------------------------------------------------------------------------
\* Stream session: StreamState, the producer goroutine, the poll primitive
\* ------------------------------------------------------------------------

\* the lines of the response body of a generation: content deltas with
\* two different texts
StreamLineKinds ==
    { DataLine(ObjectPayload(Nil, <<Delta(<<"a">>, Nil)>>)),
      DataLine(ObjectPayload(Nil, <<Delta(<<"b">>, Nil)>>)) }

\* messages waitForChunk returns
StreamChunkMsg(c) == [type |-> "StreamChunkMsg", Content |-> c, Err |-> Nil]
StreamDoneMsg == [type |-> "StreamDoneMsg", Content |-> <<>>, Err |-> Nil]
StreamErrMsg(e) == [type |-> "StreamErrMsg", Content |-> <<>>, Err |-> e]

\* the error client.ChatStream returns when the request fails
ChatStreamError == [type |-> "APIError", Message |-> "chat stream request failed"]

\* The results reader.Next() can have in the producer.  Cancel and Close
\* call reader.Close() from another goroutine without synchronising with
\* the producer's Next.  A Next call that is in progress at that moment
\* either sees r.done and gets (nil, nil), or has passed the test of r.done
\* and scans what the scanner has buffered (the lines up to some j), with a
\* read error on the closed body after that.  Otherwise the result is NextOf.
ProducerNextResults ==
    IF ~overlapped
    THEN {NextOf(body, bodyEnd, pos, rdone)}
    ELSE {NextOf(body, bodyEnd, pos, TRUE)}
         \cup {Scan(SubSeq(body, 1, j), "err", pos) : j \in pos..Len(body)}
         \cup {Scan(body, bodyEnd, pos)}

\* reader.Close() called through the session by Close or Cancel: it sets
\* r.done and closes the body under a Next call that may be in progress
SessionReaderClose ==
    /\ rdone' = TRUE
    /\ overlapped' = (overlapped \/ ppc = "next")

\* StartStream's command starts: it spawns the producer goroutine and goes
\* on to waitForChunk.
StartStreamCmd ==
    /\ ~quit
    /\ upc = "cmd"
    /\ ppc = "none"
    /\ ppc' = "connect"
    /\ upc' = "poll"
    /\ UNCHANGED <<pchunk, perr, overlapped, pollMsg, polled, currentContent, messages, streaming, err>>
    /\ UNCHANGED <<sessionVars, consumerVars, retryVars, inputVars, readerVars>>

\* producer: client.ChatStream returns an error
ProducerChatStreamFails ==
    /\ ppc = "connect"
    /\ perr' = ChatStreamError
    /\ ppc' = "senderr"
    /\ UNCHANGED <<pchunk, overlapped, sessionVars, uiVars, consumerVars, retryVars, inputVars, readerVars>>

\* producer: client.ChatStream returns a StreamReader over the response body
ProducerChatStream ==
    /\ ppc = "connect"
    /\ body' \in SeqsUpTo(StreamLineKinds, MaxStreamLines)
    /\ bodyEnd' \in {"eof", "err"}
    /\ ppc' = "setreader"
    /\ UNCHANGED <<pos, rdone, bodyCloses, results, closedAt, readAll>>
    /\ UNCHANGED <<pchunk, perr, overlapped, sessionVars, uiVars, consumerVars, retryVars, inputVars>>

\* StreamState.SetReader, called by the producer
SetReader ==
    /\ ppc = "setreader"
    /\ reader' = TRUE
    /\ ppc' = "next"
    /\ UNCHANGED <<chunks, chunksClosed, errChan, errClosed, done>>
    /\ UNCHANGED <<pchunk, perr, overlapped, uiVars, consumerVars, retryVars, inputVars, readerVars>>

\* producer: one reader.Next() of the loop and the branch on its result
ProducerNext ==
    /\ ppc = "next"
    /\ \E r \in ProducerNextResults :
        /\ results' = Append(results, [chunk |-> r.chunk, err |-> r.err])
        /\ pos' = r.pos
        /\ rdone' = (rdone \/ r.done)
        /\ overlapped' = FALSE
        /\ IF r.err # Nil
           THEN perr' = r.err /\ ppc' = "senderr" /\ pchunk' = pchunk
           ELSE IF r.chunk = Nil \/ r.chunk.Done
           THEN ppc' = "close" /\ UNCHANGED <<perr, pchunk>>
           ELSE IF r.chunk.Content # <<>>
           THEN pchunk' = r.chunk.Content /\ ppc' = "send" /\ perr' = perr
           ELSE ppc' = "next" /\ UNCHANGED <<perr, pchunk>>
    /\ UNCHANGED <<body, bodyEnd, bodyCloses, closedAt, readAll>>
    /\ UNCHANGED <<sessionVars, uiVars, consumerVars, retryVars, inputVars>>

\* StreamState.SendChunk on an open channel: it blocks while the channel is full
SendChunk ==
    /\ ppc = "send"
    /\ chunksClosed = 0
    /\ Len(chunks) < ChunkCap
    /\ chunks' = Append(chunks, pchunk)
    /\ pchunk' = <<>>
    /\ ppc' = "next"
    /\ UNCHANGED <<chunksClosed, errChan, errClosed, done, reader>>
    /\ UNCHANGED <<perr, overlapped, uiVars, consumerVars, retryVars, inputVars, readerVars>>

\* StreamState.SendChunk on a closed channel: the send panics
SendChunkPanics ==
    /\ ppc = "send"
    /\ chunksClosed > 0
    /\ ppc' = "panicked"
    /\ UNCHANGED <<pchunk, perr, overlapped, sessionVars, uiVars, consumerVars, retryVars, inputVars, readerVars>>

\* StreamState.SendError: a non-blocking send; on a closed channel it panics
SendError ==
    /\ ppc = "senderr"
    /\ IF errClosed > 0
       THEN ppc' = "panicked" /\ errChan' = errChan
       ELSE /\ ppc' = "close"
            /\ errChan' = IF Len(errChan) < 1 THEN Append(errChan, perr) ELSE errChan
    /\ UNCHANGED <<chunks, chunksClosed, errClosed, done, reader>>
    /\ UNCHANGED <<pchunk, perr, overlapped, uiVars, consumerVars, retryVars, inputVars, readerVars>>

\* variant of StreamStateClose without the done guard
StreamStateClose_unguarded ==
    /\ done' = TRUE
    /\ chunksClosed' = chunksClosed + 1
    /\ errClosed' = errClosed + 1
    /\ IF reader
       THEN SessionReaderClose
       ELSE UNCHANGED <<rdone, overlapped>>
    /\ UNCHANGED <<chunks, errChan, reader>>

\* StreamState.Close, under s.mu: what it does to the session and the reader
StreamStateClose ==
    /\ IF ~done
       THEN /\ done' = TRUE
            /\ chunksClosed' = chunksClosed + 1
            /\ errClosed' = errClosed + 1
            /\ IF reader
               THEN SessionReaderClose
               ELSE UNCHANGED <<rdone, overlapped>>
       ELSE UNCHANGED <<done, chunksClosed, errClosed, rdone, overlapped>>
    /\ UNCHANGED <<chunks, errChan, reader>>

\* StreamState.Cancel, under s.mu: what it does to the session and the reader
StreamStateCancel ==
    /\ IF reader /\ ~done
       THEN SessionReaderClose
       ELSE UNCHANGED <<rdone, overlapped>>
    /\ UNCHANGED sessionVars

\* producer: stream.Close() at the end of the goroutine
ProducerClose ==
    /\ ppc = "close"
    /\ StreamStateClose
    /\ ppc' = "exited"
    /\ UNCHANGED <<body, bodyEnd, pos, bodyCloses, results, closedAt, readAll>>
    /\ UNCHANGED <<pchunk, perr, uiVars, consumerVars, retryVars, inputVars>>

\* where the producer stands: connecting, reading the stream, blocked
\* sending into the full chunk channel, or elsewhere
ProducerAt ==
    IF ppc \in {"connect", "setreader"} THEN "connecting"
    ELSE IF ppc = "next" THEN "reading"
    ELSE IF ppc = "send" /\ Len(chunks) = ChunkCap /\ chunksClosed = 0 THEN "pushing"
    ELSE "elsewhere"

\* the consumer side calls StreamState.Cancel, any number of times
ConsumerCancel ==
    /\ ppc # "none"
    /\ StreamStateCancel
    /\ cancelled' = TRUE
    /\ gaveUpAt' = IF gaveUpAt = "never" THEN ProducerAt ELSE gaveUpAt
    /\ UNCHANGED <<body, bodyEnd, pos, bodyCloses, results, closedAt, readAll>>
    /\ UNCHANGED <<cclosed, ppc, pchunk, perr, uiVars, retryVars, inputVars>>

\* the consumer side calls StreamState.Close, any number of times
ConsumerClose ==
    /\ ppc # "none"
    /\ StreamStateClose
    /\ cclosed' = TRUE
    /\ gaveUpAt' = IF gaveUpAt = "never" THEN ProducerAt ELSE gaveUpAt
    /\ UNCHANGED <<body, bodyEnd, pos, bodyCloses, results, closedAt, readAll>>
    /\ UNCHANGED <<cancelled, ppc, pchunk, perr, uiVars, retryVars, inputVars>>

\* ------------------------------------------------------------------------
\* Chat model: drafts, commands, autocomplete, input history, session
\* ------------------------------------------------------------------------

CmdResume == "/resume"
CmdModels == "/models"
CmdQuit == "/quit"
CmdExit == "/exit"

\* The values the draft takes: nothing, blanks, a message, the command
\* prefix and the commands (all in lower case).
Drafts == {"", " ", "q", "/", CmdExit, CmdModels, CmdQuit, CmdResume}

\* The drafts typed where only the draft and the command list matter: also
\* the beginning of one command, of two commands ("/e" would do for one
\* more), of no command, and a command followed by an argument.
AutocompleteDrafts == Drafts \cup {"/q", "/x", "/exit arg"}

\* strings.TrimSpace on a draft
TrimSpace(d) == IF d = " " THEN "" ELSE d

\* strings.Contains(d, " ") on a draft
ContainsSpace(d) == d \in {" ", "/exit arg"}

\* strings.HasPrefix(s, prefix) on drafts
StrHasPrefix(s, prefix) ==
    \/ prefix = ""
    \/ s = prefix
    \/ prefix = "/" /\ s \in {CmdExit, CmdModels, CmdQuit, CmdResume, "/q", "/x", "/exit arg"}
    \/ prefix = "/q" /\ s = CmdQuit
    \/ prefix = CmdExit /\ s = "/exit arg"

AvailableCommands == <<CmdExit, CmdModels, CmdQuit, CmdResume>>

FilterCommands(prefix) ==
    IF prefix = "" \/ ~StrHasPrefix(prefix, "/") THEN <<>>
    ELSE IF prefix = "/" THEN AvailableCommands
    ELSE SelectSeq(AvailableCommands, LAMBDA c : StrHasPrefix(c, prefix))

NewAutocompleteState == [visible |-> FALSE, index |-> 0, filtered |-> <<>>]

\* variant of AutocompleteUpdate that shows the list for a command typed in full
AutocompleteUpdate_showsExact(a, input) ==
    IF ~StrHasPrefix(input, "/") \/ ContainsSpace(input)
    THEN [visible |-> FALSE, index |-> 0, filtered |-> <<>>]
    ELSE LET f == FilterCommands(input)
         IN [visible |-> Len(f) > 0,
             index |-> IF a.index >= Len(f)
                       THEN (IF Len(f) - 1 > 0 THEN Len(f) - 1 ELSE 0)
                       ELSE a.index,
             filtered |-> f]

\* AutocompleteState.Update: shown for an input that starts with "/", has
\* no space and is not itself a command
AutocompleteUpdate(a, input) ==
    IF ~StrHasPrefix(input, "/") \/ ContainsSpace(input)
    THEN [visible |-> FALSE, index |-> 0, filtered |-> <<>>]
    ELSE LET f == FilterCommands(input)
             exactMatch == \E i \in 1..Len(f) : f[i] = input
         IN [visible |-> Len(f) > 0 /\ ~exactMatch,
             index |-> IF a.index >= Len(f)
                       THEN (IF Len(f) - 1 > 0 THEN Len(f) - 1 ELSE 0)
                       ELSE a.index,
             filtered |-> f]

AutocompleteHide(a) == [a EXCEPT !.visible = FALSE]

AutocompleteUp(a) == IF a.index > 0 THEN [a EXCEPT !.index = a.index - 1] ELSE a

\* variant of AutocompleteDown that moves on below the last entry
AutocompleteDown_unbounded(a) == [a EXCEPT !.index = a.index + 1]

AutocompleteDown(a) ==
    IF a.index < Len(a.filtered) - 1 THEN [a EXCEPT !.index = a.index + 1] ELSE a

\* AutocompleteState.Select: the selected command name, "" if there is none
AutocompleteSelect(a) ==
    IF a.index < Len(a.filtered) THEN a.filtered[a.index + 1] ELSE ""

\* HistoryNavigator: index counts from 0 as in the code, -1 = not browsing
NewHistoryNavigator == [history |-> <<>>, index |-> -1, draft |-> ""]

HistoryIsBrowsing(h) == h.index >= 0

\* what Up returns when h.history[h.index] is outside the list: the
\* runtime panics with "index out of range"
IndexOutOfRange == "panic: index out of range"

\* HistoryNavigator.Up: the navigator after the call and the entry returned
HistoryUp(h, currentInput) ==
    IF Len(h.history) = 0 THEN [h |-> h, entry |-> ""]
    ELSE LET h2 == IF h.index = -1
                   THEN [h EXCEPT !.draft = currentInput,
                                  !.index = Len(h.history) - 1]
                   ELSE IF h.index > 0
                        THEN [h EXCEPT !.index = h.index - 1]
                        ELSE h
         IN [h |-> h2,
             entry |-> IF h2.index + 1 \in DOMAIN h2.history
                       THEN h2.history[h2.index + 1]
                       ELSE IndexOutOfRange]

\* variant of HistoryDown that forgets the draft when it leaves the history
HistoryDown_dropsDraft(h) ==
    IF h.index = -1 THEN [h |-> h, entry |-> ""]
    ELSE IF h.index < Len(h.history) - 1
         THEN [h |-> [h EXCEPT !.index = h.index + 1],
               entry |-> h.history[h.index + 2]]
         ELSE [h |-> [h EXCEPT !.index = -1], entry |-> ""]

\* HistoryNavigator.Down
HistoryDown(h) ==
    IF h.index = -1 THEN [h |-> h, entry |-> ""]
    ELSE IF h.index < Len(h.history) - 1
         THEN [h |-> [h EXCEPT !.index = h.index + 1],
               entry |-> h.history[h.index + 2]]
         ELSE [h |-> [h EXCEPT !.index = -1], entry |-> h.draft]

HistoryReset(h) == [h EXCEPT !.index = -1, !.draft = ""]

\* variant of HistoryAdd that appends every entry
HistoryAdd_appendsAlways(h, entry) ==
    [h EXCEPT !.history = Append(h.history, entry)]

\* HistoryNavigator.Add skips an entry equal to the most recent one
HistoryAdd(h, entry) ==
    IF Len(h.history) = 0 \/ h.history[Len(h.history)] # entry
    THEN [h EXCEPT !.history = Append(h.history, entry)]
    ELSE h

\* NewSession writes no file; Stored tells whether the session file holds
\* the session as it is in memory, Dir is the directory GetSessionDir
\* returns: "writable", or "readonly" when MkdirAll and WriteFile fail in it
NewSession ==
    [History |-> <<>>, Messages |-> <<>>, Stored |-> FALSE, Dir |-> "writable"]

\* the error Save returns when the session directory or file cannot be
\* written
SaveError == [type |-> "SaveError", Message |-> "failed to write session file"]

\* the value Session.Save returns
SaveErr(s) == IF s.Dir = "writable" THEN Nil ELSE SaveError

\* Session.Save writes the whole session unless the write fails
Save(s) == [s EXCEPT !.Stored = (SaveErr(s) = Nil)]

\* Session.AppendHistory / Session.AppendMessage: append in memory, then
\* save; the callers in Update drop the error returned
AppendHistory(s, entry) == Save([s EXCEPT !.History = Append(s.History, entry)])

AppendMessage(s, m) == Save([s EXCEPT !.Messages = Append(s.Messages, m)])

\* ------------------------------------------------------------------------
\* Chat model: the poll primitive and the Update handlers of a generation
\* ------------------------------------------------------------------------

\* a message text is a sequence of pieces: the input of a user message,
\* the deltas of an assistant message
UserMessage(u) == [Role |-> "user", Content |-> <<u>>]

AssistantMessage(c) == [Role |-> "assistant", Content |-> c]

\* variant of PickerShowing that looks at the session picker only
PickerShowing_sessionOnly == ShowingPicker

\* the first statement of Update: nothing is handled while the parent shows
\* a picker
PickerShowing == ShowingPicker \/ ShowingModelPicker

\* the program runs and Update handles the message itself
Updating == ~quit /\ ~PickerShowing

\* m.sessionErr, the error View shows as a warning: the model is
\* constructed with it nil and no statement of Update assigns it
sessionErr == Nil

\* View's session warning ("Session save failed")
sessionWarning == sessionErr # Nil

\* variant of IsCommand that does not know /exit
IsCommand_withoutExit(u) == u \in {CmdResume, CmdModels, CmdQuit}

IsCommand(u) == u \in {CmdResume, CmdModels, CmdQuit, CmdExit}

\* variant of UpdateKeyEnter that does not save the input in the session
UpdateKeyEnter_noHistory ==
    /\ Updating
    /\ ~autocomplete.visible
    /\ ~streaming
    /\ TrimSpace(textarea) # ""
    /\ ~IsCommand(TrimSpace(textarea))
    /\ upc = "idle"
    /\ ppc = "none"
    /\ LET userInput == TrimSpace(textarea) IN
        /\ history' = HistoryReset(HistoryAdd(history, userInput))
        /\ session' = AppendMessage(session, UserMessage(userInput))
        /\ messages' = Append(messages, UserMessage(userInput))
        /\ submitted' = [C |-> messages, u |-> userInput]
    /\ textarea' = ""
    /\ lastInput' = "none"
    /\ streaming' = TRUE
    /\ currentContent' = <<>>
    /\ err' = Nil
    /\ chunks' = <<>>
    /\ chunksClosed' = 0
    /\ errChan' = <<>>
    /\ errClosed' = 0
    /\ done' = FALSE
    /\ reader' = FALSE
    /\ upc' = "cmd"
    /\ UNCHANGED <<autocomplete, overlayVars, escVars, quit>>
    /\ UNCHANGED <<pollMsg, polled, producerVars, consumerVars, retryVars, readerVars>>

\* Update on the Enter key with a non-empty, non-command input while no
\* generation runs: it records the input in the history and the session,
\* appends the user message, clears the draft, marks the model as
\* streaming and, in StartStream, creates the session (NewStreamState).
\* The model follows one generation.
UpdateKeyEnter ==
    /\ Updating
    /\ ~autocomplete.visible
    /\ ~streaming
    /\ TrimSpace(textarea) # ""
    /\ ~IsCommand(TrimSpace(textarea))
    /\ upc = "idle"
    /\ ppc = "none"
    /\ LET userInput == TrimSpace(textarea) IN
        /\ history' = HistoryReset(HistoryAdd(history, userInput))
        /\ session' = AppendMessage(AppendHistory(session, userInput),
                                    UserMessage(userInput))
        /\ messages' = Append(messages, UserMessage(userInput))
        /\ submitted' = [C |-> messages, u |-> userInput]
    /\ textarea' = ""
    /\ lastInput' = "none"
    /\ streaming' = TRUE
    /\ currentContent' = <<>>
    /\ err' = Nil
    /\ chunks' = <<>>
    /\ chunksClosed' = 0
    /\ errChan' = <<>>
    /\ errClosed' = 0
    /\ done' = FALSE
    /\ reader' = FALSE
    /\ upc' = "cmd"
    /\ UNCHANGED <<autocomplete, overlayVars, escVars, quit>>
    /\ UNCHANGED <<pollMsg, polled, producerVars, consumerVars, retryVars, readerVars>>

\* waitForChunk, first statement: the session is done
waitForChunkIsDone ==
    /\ upc = "poll"
    /\ done
    /\ pollMsg' = StreamDoneMsg
    /\ upc' = "msg"
    /\ UNCHANGED <<polled, currentContent, messages, streaming, err>>
    /\ UNCHANGED <<sessionVars, producerVars, consumerVars, retryVars, inputVars, readerVars>>

\* waitForChunk, first statement: the session is not done, go on to the select
waitForChunkNotDone ==
    /\ upc = "poll"
    /\ ~done
    /\ upc' = "select"
    /\ UNCHANGED <<pollMsg, polled, currentContent, messages, streaming, err>>
    /\ UNCHANGED <<sessionVars, producerVars, consumerVars, retryVars, inputVars, readerVars>>

\* waitForChunk, select: the chunk case receives a buffered chunk
waitForChunkChunk ==
    /\ upc = "select"
    /\ chunks # <<>>
    /\ pollMsg' = StreamChunkMsg(Head(chunks))
    /\ chunks' = Tail(chunks)
    /\ upc' = "msg"
    /\ UNCHANGED <<chunksClosed, errChan, errClosed, done, reader>>
    /\ UNCHANGED <<polled, currentContent, messages, streaming, err>>
    /\ UNCHANGED <<producerVars, consumerVars, retryVars, inputVars, readerVars>>

\* waitForChunk, select: the chunk case finds the channel closed and empty,
\* and looks at the error channel without blocking
waitForChunkClosed ==
    /\ upc = "select"
    /\ chunks = <<>>
    /\ chunksClosed > 0
    /\ IF errChan # <<>>
       THEN pollMsg' = StreamErrMsg(Head(errChan)) /\ errChan' = Tail(errChan)
       ELSE pollMsg' = StreamDoneMsg /\ errChan' = errChan
    /\ upc' = "msg"
    /\ UNCHANGED <<chunks, chunksClosed, errClosed, done, reader>>
    /\ UNCHANGED <<polled, currentContent, messages, streaming, err>>
    /\ UNCHANGED <<producerVars, consumerVars, retryVars, inputVars, readerVars>>

\* waitForChunk, select: the error case receives the buffered error
waitForChunkErr ==
    /\ upc = "select"
    /\ errChan # <<>>
    /\ pollMsg' = StreamErrMsg(Head(errChan))
    /\ errChan' = Tail(errChan)
    /\ upc' = "msg"
    /\ UNCHANGED <<chunks, chunksClosed, errClosed, done, reader>>
    /\ UNCHANGED <<polled, currentContent, messages, streaming, err>>
    /\ UNCHANGED <<producerVars, consumerVars, retryVars, inputVars, readerVars>>

\* waitForChunk, select: the error case receives nil from the closed, empty
\* error channel and calls waitForChunk again
waitForChunkErrNil ==
    /\ upc = "select"
    /\ errChan = <<>>
    /\ errClosed > 0
    /\ upc' = "poll"
    /\ UNCHANGED <<pollMsg, polled, currentContent, messages, streaming, err>>
    /\ UNCHANGED <<sessionVars, producerVars, consumerVars, retryVars, inputVars, readerVars>>

\* variant of UpdateStreamChunkMsg that does not poll again
UpdateStreamChunkMsg_noRepoll ==
    /\ Updating
    /\ upc = "msg"
    /\ pollMsg.type = "StreamChunkMsg"
    /\ polled' = Append(polled, pollMsg)
    /\ currentContent' = currentContent \o pollMsg.Content
    /\ upc' = "idle"
    /\ pollMsg' = Nil
    /\ UNCHANGED <<messages, streaming, err>>
    /\ UNCHANGED <<sessionVars, producerVars, consumerVars, retryVars, inputVars, readerVars>>

\* Update on StreamChunkMsg: append the text and poll again
UpdateStreamChunkMsg ==
    /\ Updating
    /\ upc = "msg"
    /\ pollMsg.type = "StreamChunkMsg"
    /\ polled' = Append(polled, pollMsg)
    /\ currentContent' = currentContent \o pollMsg.Content
    /\ upc' = "poll"
    /\ pollMsg' = Nil
    /\ UNCHANGED <<messages, streaming, err>>
    /\ UNCHANGED <<sessionVars, producerVars, consumerVars, retryVars, inputVars, readerVars>>

\* variant of UpdateStreamDoneMsg that appends the assistant message even
\* when no text has arrived
UpdateStreamDoneMsg_alwaysAppends ==
    /\ Updating
    /\ upc = "msg"
    /\ pollMsg.type = "StreamDoneMsg"
    /\ polled' = Append(polled, pollMsg)
    /\ messages' = Append(messages, AssistantMessage(currentContent))
    /\ streaming' = FALSE
    /\ currentContent' = <<>>
    /\ session' = AppendMessage(session, AssistantMessage(currentContent))
    /\ lastInput' = "none"
    /\ upc' = "idle"
    /\ pollMsg' = Nil
    /\ UNCHANGED err
    /\ UNCHANGED <<draftVars, overlayVars, escVars, history, quit, submitted>>
    /\ UNCHANGED <<sessionVars, producerVars, consumerVars, retryVars, readerVars>>

\* Update on StreamDoneMsg: finalize the assistant message, stop polling
UpdateStreamDoneMsg ==
    /\ Updating
    /\ upc = "msg"
    /\ pollMsg.type = "StreamDoneMsg"
    /\ polled' = Append(polled, pollMsg)
    /\ messages' = IF currentContent # <<>>
                   THEN Append(messages, AssistantMessage(currentContent))
                   ELSE messages
    /\ streaming' = FALSE
    /\ currentContent' = <<>>
    /\ session' = IF currentContent # <<>>
                  THEN AppendMessage(session, AssistantMessage(currentContent))
                  ELSE session
    /\ lastInput' = "none"
    /\ upc' = "idle"
    /\ pollMsg' = Nil
    /\ UNCHANGED err
    /\ UNCHANGED <<draftVars, overlayVars, escVars, history, quit, submitted>>
    /\ UNCHANGED <<sessionVars, producerVars, consumerVars, retryVars, readerVars>>

\* variant of UpdateStreamErrMsg that keeps the partial text as a message
UpdateStreamErrMsg_keepsPartial ==
    /\ Updating
    /\ upc = "msg"
    /\ pollMsg.type = "StreamErrMsg"
    /\ polled' = Append(polled, pollMsg)
    /\ err' = pollMsg.Err
    /\ streaming' = FALSE
    /\ currentContent' = <<>>
    /\ lastInput' = "none"
    /\ upc' = "idle"
    /\ pollMsg' = Nil
    /\ messages' = IF currentContent # <<>>
                   THEN Append(messages, AssistantMessage(currentContent))
                   ELSE messages
    /\ UNCHANGED <<draftVars, overlayVars, escVars, history, session, quit, submitted>>
    /\ UNCHANGED <<sessionVars, producerVars, consumerVars, retryVars, readerVars>>

\* Update on StreamErrMsg: record the error, stop polling
UpdateStreamErrMsg ==
    /\ Updating
    /\ upc = "msg"
    /\ pollMsg.type = "StreamErrMsg"
    /\ polled' = Append(polled, pollMsg)
    /\ err' = pollMsg.Err
    /\ streaming' = FALSE
    /\ currentContent' = <<>>
    /\ lastInput' = "none"
    /\ upc' = "idle"
    /\ pollMsg' = Nil
    /\ UNCHANGED messages
    /\ UNCHANGED <<draftVars, overlayVars, escVars, history, session, quit, submitted>>
    /\ UNCHANGED <<sessionVars, producerVars, consumerVars, retryVars, readerVars>>

\* ------------------------------------------------------------------------
\* Chat model: Update on keys, on the ESC timeout and on other input
\* ------------------------------------------------------------------------

\* what the poll chain hands to Update, seen from the chat model alone
\* the text of the i-th chunk of a generation: no two chunks alike
ChunkText(i) == IF i = 1 THEN "a" ELSE IF i = 2 THEN "b" ELSE "c"

StreamMsgs ==
    {StreamChunkMsg(<<ChunkText(i)>>) : i \in 1..MaxChunkMsgs}
    \cup {StreamDoneMsg, StreamErrMsg(StreamError)}

ChunkMsgsPolled ==
    Cardinality({i \in 1..Len(polled) : polled[i].type = "StreamChunkMsg"})

\* waitForChunk as the chat model sees it: the command returns a chunk, the
\* end of the stream or its error
waitForChunkReturns(m) ==
    /\ ~quit
    /\ upc = "poll"
    /\ m.type = "StreamChunkMsg" =>
        /\ ChunkMsgsPolled < MaxChunkMsgs
        /\ m = StreamChunkMsg(<<ChunkText(ChunkMsgsPolled + 1)>>)
    /\ pollMsg' = m
    /\ upc' = "msg"
    /\ UNCHANGED <<polled, currentContent, messages, streaming, err>>
    /\ UNCHANGED <<backgroundVars, inputVars>>

\* records the input event if a generation is in progress
InputSeen(k) == lastInput' = IF streaming THEN k ELSE lastInput

\* updateAutocomplete, KeyEsc: hide the list
AutocompleteKeyEsc ==
    /\ Updating
    /\ autocomplete.visible
    /\ autocomplete' = AutocompleteHide(autocomplete)
    /\ InputSeen("KeyEsc")
    /\ UNCHANGED <<textarea, overlayVars, escVars, history, session, quit>>
    /\ UNCHANGED <<uiVars, backgroundVars, submitted>>

\* updateAutocomplete, KeyUp
AutocompleteKeyUp ==
    /\ Updating
    /\ autocomplete.visible
    /\ autocomplete' = AutocompleteUp(autocomplete)
    /\ InputSeen("KeyUp")
    /\ UNCHANGED <<textarea, overlayVars, escVars, history, session, quit>>
    /\ UNCHANGED <<uiVars, backgroundVars, submitted>>

\* updateAutocomplete, KeyDown
AutocompleteKeyDown ==
    /\ Updating
    /\ autocomplete.visible
    /\ autocomplete' = AutocompleteDown(autocomplete)
    /\ InputSeen("KeyDown")
    /\ UNCHANGED <<textarea, overlayVars, escVars, history, session, quit>>
    /\ UNCHANGED <<uiVars, backgroundVars, submitted>>

\* updateAutocomplete, KeyEnter: fill the selected command into the draft
AutocompleteKeyEnter ==
    /\ Updating
    /\ autocomplete.visible
    /\ LET selected == AutocompleteSelect(autocomplete) IN
        textarea' = IF selected # "" THEN selected ELSE textarea
    /\ autocomplete' = AutocompleteHide(autocomplete)
    /\ InputSeen("KeyEnter")
    /\ UNCHANGED <<overlayVars, escVars, history, session, quit>>
    /\ UNCHANGED <<uiVars, backgroundVars, submitted>>

\* updateAutocomplete, any other key: the textarea takes it (it leaves the
\* draft d) and the list follows the draft
AutocompleteKeyOther(d) ==
    /\ Updating
    /\ autocomplete.visible
    /\ textarea' = d
    /\ autocomplete' = AutocompleteUpdate(autocomplete, d)
    /\ InputSeen("KeyRunes")
    /\ UNCHANGED <<overlayVars, escVars, history, session, quit>>
    /\ UNCHANGED <<uiVars, backgroundVars, submitted>>

\* Update on Ctrl+C
UpdateKeyCtrlC ==
    /\ Updating
    /\ ~autocomplete.visible
    /\ quit' = TRUE
    /\ InputSeen("KeyCtrlC")
    /\ UNCHANGED <<draftVars, overlayVars, escVars, history, session>>
    /\ UNCHANGED <<uiVars, backgroundVars, submitted>>

\* variant of UpdateKeyEsc that quits at the first press on a blank draft
UpdateKeyEsc_quitsAtOnce ==
    /\ Updating
    /\ ~autocomplete.visible
    /\ IF TrimSpace(textarea) = ""
       THEN /\ quit' = TRUE
            /\ UNCHANGED <<textarea, escVars, history>>
       ELSE IF escTimeoutActive /\ ~escElapsed
            THEN /\ textarea' = ""
                 /\ escTimeoutActive' = FALSE
                 /\ history' = HistoryReset(history)
                 /\ UNCHANGED <<escActionIsExit, escElapsed, escTicks, quit>>
            ELSE /\ escTicks < MaxEscTicks
                 /\ escElapsed' = FALSE
                 /\ escTimeoutActive' = TRUE
                 /\ escActionIsExit' = FALSE
                 /\ escTicks' = escTicks + 1
                 /\ UNCHANGED <<textarea, history, quit>>
    /\ InputSeen("KeyEsc")
    /\ UNCHANGED <<autocomplete, overlayVars, session>>
    /\ UNCHANGED <<uiVars, backgroundVars, submitted>>

\* Update on ESC: a second press within 2 s exits or clears the draft, any
\* other press records the action and schedules the EscTimeoutMsg tick
UpdateKeyEsc ==
    /\ Updating
    /\ ~autocomplete.visible
    /\ IF escTimeoutActive /\ ~escElapsed
       THEN IF escActionIsExit
            THEN /\ quit' = TRUE
                 /\ UNCHANGED <<textarea, escVars, history>>
            ELSE /\ textarea' = ""
                 /\ escTimeoutActive' = FALSE
                 /\ history' = HistoryReset(history)
                 /\ UNCHANGED <<escActionIsExit, escElapsed, escTicks, quit>>
       ELSE /\ escTicks < MaxEscTicks
            /\ escElapsed' = FALSE
            /\ escTimeoutActive' = TRUE
            /\ escActionIsExit' = (TrimSpace(textarea) = "")
            /\ escTicks' = escTicks + 1
            /\ UNCHANGED <<textarea, history, quit>>
    /\ InputSeen("KeyEsc")
    /\ UNCHANGED <<autocomplete, overlayVars, session>>
    /\ UNCHANGED <<uiVars, backgroundVars, submitted>>

\* Update on Ctrl+U: clear the draft
UpdateKeyCtrlU ==
    /\ Updating
    /\ ~autocomplete.visible
    /\ textarea' = ""
    /\ history' = HistoryReset(history)
    /\ escTimeoutActive' = FALSE
    /\ InputSeen("KeyCtrlU")
    /\ UNCHANGED <<autocomplete, overlayVars, escActionIsExit, escElapsed, escTicks>>
    /\ UNCHANGED <<session, quit, uiVars, backgroundVars, submitted>>

\* KeyUp outside a generation: the navigator and the value of the textarea
\* after it.  A draft that is being edited keeps the key for its cursor.
KeyUpOutside(h, value) ==
    IF TrimSpace(value) = "" \/ HistoryIsBrowsing(h)
    THEN LET r == HistoryUp(h, value)
         IN  [h |-> r.h, value |-> IF r.entry # "" THEN r.entry ELSE value]
    ELSE [h |-> h, value |-> value]

\* KeyDown outside a generation
KeyDownOutside(h, value) ==
    IF TrimSpace(value) = "" \/ HistoryIsBrowsing(h)
    THEN LET r == HistoryDown(h)
         IN  [h |-> r.h,
              value |-> IF r.entry # "" \/ r.h.index = -1 THEN r.entry ELSE value]
    ELSE [h |-> h, value |-> value]

\* Update on the up key: recall an older input, or move the cursor in a
\* draft that is being edited; nothing during a generation
UpdateKeyUp ==
    /\ Updating
    /\ ~autocomplete.visible
    /\ IF ~streaming
       THEN LET r == KeyUpOutside(history, textarea) IN
                /\ history' = r.h
                /\ textarea' = r.value
       ELSE UNCHANGED <<textarea, history>>
    /\ InputSeen("KeyUp")
    /\ UNCHANGED <<autocomplete, overlayVars, escVars, session, quit>>
    /\ UNCHANGED <<uiVars, backgroundVars, submitted>>

\* Update on the down key
UpdateKeyDown ==
    /\ Updating
    /\ ~autocomplete.visible
    /\ IF ~streaming
       THEN LET r == KeyDownOutside(history, textarea) IN
                /\ history' = r.h
                /\ textarea' = r.value
       ELSE UNCHANGED <<textarea, history>>
    /\ InputSeen("KeyDown")
    /\ UNCHANGED <<autocomplete, overlayVars, escVars, session, quit>>
    /\ UNCHANGED <<uiVars, backgroundVars, submitted>>

\* variant of UpdateKeyEnterStreaming that submits during a generation
UpdateKeyEnterStreaming_submits ==
    /\ Updating
    /\ ~autocomplete.visible
    /\ streaming
    /\ messages' = Append(messages, UserMessage("q"))
    /\ session' = AppendMessage(AppendHistory(session, "q"), UserMessage("q"))
    /\ history' = HistoryReset(HistoryAdd(history, "q"))
    /\ currentContent' = <<>>
    /\ upc' = "cmd"
    /\ lastInput' = "KeyEnter"
    /\ UNCHANGED <<draftVars, overlayVars, escVars, quit>>
    /\ UNCHANGED <<pollMsg, polled, streaming, err, backgroundVars, submitted>>

\* Update on the Enter key during a generation: the key is dropped
UpdateKeyEnterStreaming ==
    /\ Updating
    /\ ~autocomplete.visible
    /\ streaming
    /\ lastInput' = "KeyEnter"
    /\ UNCHANGED <<draftVars, overlayVars, escVars, history, session, quit>>
    /\ UNCHANGED <<uiVars, backgroundVars, submitted>>

\* Update on the Enter key with an empty draft or a command while no
\* generation runs: /resume and /models raise the picker flags for the
\* parent, /quit and /exit end the program
UpdateKeyEnterCommand ==
    /\ Updating
    /\ ~autocomplete.visible
    /\ ~streaming
    /\ LET userInput == TrimSpace(textarea) IN
        /\ userInput = "" \/ IsCommand(userInput)
        /\ textarea' = IF userInput \in {CmdResume, CmdModels} THEN "" ELSE textarea
        /\ ShowingPicker' = (ShowingPicker \/ userInput = CmdResume)
        /\ ShowingModelPicker' = (ShowingModelPicker \/ userInput = CmdModels)
        /\ quit' = (userInput \in {CmdQuit, CmdExit})
    /\ UNCHANGED <<autocomplete, escVars, history, session, lastInput>>
    /\ UNCHANGED <<uiVars, backgroundVars, submitted>>

\* variant of UpdateKeyRunes that edits the draft during a generation too
UpdateKeyRunes_unguarded(d) ==
    /\ Updating
    /\ ~autocomplete.visible
    /\ textarea' = d
    /\ autocomplete' = AutocompleteUpdate(autocomplete, d)
    /\ InputSeen("KeyRunes")
    /\ UNCHANGED <<overlayVars, escVars, history, session, quit>>
    /\ UNCHANGED <<uiVars, backgroundVars, submitted>>

\* Update on any other key (the end of Update): outside a generation the
\* textarea takes the key (it leaves the draft d) and the list follows it
UpdateKeyRunes(d) ==
    /\ Updating
    /\ ~autocomplete.visible
    /\ IF ~streaming
       THEN /\ textarea' = d
            /\ autocomplete' = AutocompleteUpdate(autocomplete, d)
       ELSE UNCHANGED <<textarea, autocomplete>>
    /\ InputSeen("KeyRunes")
    /\ UNCHANGED <<overlayVars, escVars, history, session, quit>>
    /\ UNCHANGED <<uiVars, backgroundVars, submitted>>

\* Update on a resize (the end of Update): the draft stays, the list is
\* computed again from it
UpdateWindowSizeMsg ==
    /\ Updating
    /\ IF ~streaming
       THEN autocomplete' = AutocompleteUpdate(autocomplete, textarea)
       ELSE UNCHANGED autocomplete
    /\ InputSeen("WindowSizeMsg")
    /\ UNCHANGED <<textarea, overlayVars, escVars, history, session, quit>>
    /\ UNCHANGED <<uiVars, backgroundVars, submitted>>

\* 2 s have passed since the last ESC press
TimeElapses ==
    /\ ~quit
    /\ ~escElapsed
    /\ escElapsed' = TRUE
    /\ UNCHANGED <<escTimeoutActive, escActionIsExit, escTicks>>
    /\ UNCHANGED <<draftVars, overlayVars, history, session, quit, lastInput>>
    /\ UNCHANGED <<uiVars, backgroundVars, submitted>>

\* Update on EscTimeoutMsg: the tick of an ESC press arrives 2 s after it
UpdateEscTimeoutMsg ==
    /\ Updating
    /\ escTicks > 0
    /\ escTicks' = escTicks - 1
    /\ escElapsed' = (escElapsed \/ escTicks = 1)
    /\ escTimeoutActive' = FALSE
    /\ UNCHANGED <<escActionIsExit, draftVars, overlayVars, history, session, quit, lastInput>>
    /\ UNCHANGED <<uiVars, backgroundVars, submitted>>

\* variant of UpdateEscTimeoutMsgSkipped that handles the message although
\* a picker is shown
UpdateEscTimeoutMsgSkipped_handled ==
    /\ ~quit
    /\ PickerShowing
    /\ escTicks > 0
    /\ escTicks' = escTicks - 1
    /\ escElapsed' = (escElapsed \/ escTicks = 1)
    /\ escTimeoutActive' = FALSE
    /\ UNCHANGED <<escActionIsExit, draftVars, overlayVars, history, session, quit, lastInput>>
    /\ UNCHANGED <<uiVars, backgroundVars, submitted>>

\* Update on EscTimeoutMsg while the parent shows a picker: the first
\* statement of Update returns and the message is gone
UpdateEscTimeoutMsgSkipped ==
    /\ ~quit
    /\ PickerShowing
    /\ escTicks > 0
    /\ escTicks' = escTicks - 1
    /\ escElapsed' = (escElapsed \/ escTicks = 1)
    /\ UNCHANGED <<escTimeoutActive, escActionIsExit>>
    /\ UNCHANGED <<draftVars, overlayVars, history, session, quit, lastInput>>
    /\ UNCHANGED <<uiVars, backgroundVars, submitted>>

\* the picker is left with ESC, without a selection: back to the chat
PickerKeyEsc ==
    /\ ~quit
    /\ ShowingPicker \/ ShowingModelPicker
    /\ ShowingPicker' = FALSE
    /\ ShowingModelPicker' = FALSE
    /\ UNCHANGED <<draftVars, escVars, history, session, quit, lastInput>>
    /\ UNCHANGED <<uiVars, backgroundVars, submitted>>

\* ------------------------------------------------------------------------
\* Specifications
\* ------------------------------------------------------------------------

\* One client call: a client with or without a retry configuration runs
\* Chat, ChatStream or ListModels; no reader and no stream session exist.
InitRetry ==
    /\ retry \in RetryConfigs \cup {Nil}
    /\ call \in {"Chat", "ChatStream", "ListModels"}
    /\ attempt = 0
    /\ rpc = "loop"
    /\ ctxDone = FALSE
    /\ served = <<>>
    /\ lastErr = Nil
    /\ backoffs = <<>>
    /\ ret = [val |-> Nil, err |-> Nil]
    /\ req = TestRequest
    /\ jsonBody = RequestBody(call, req)
    /\ sent = <<>>
    /\ closes = <<>>
    /\ original = Nil
    /\ encoded = Nil
    /\ decoded = Nil
    /\ body = <<>>
    /\ bodyEnd = "eof"
    /\ pos = 0
    /\ rdone = FALSE
    /\ bodyCloses = 0
    /\ results = <<>>
    /\ closedAt = -1
    /\ readAll = <<>>
    /\ chunks = <<>>
    /\ chunksClosed = 0
    /\ errChan = <<>>
    /\ errClosed = 0
    /\ done = FALSE
    /\ reader = FALSE
    /\ ppc = "none"
    /\ pchunk = <<>>
    /\ perr = Nil
    /\ overlapped = FALSE
    /\ upc = "idle"
    /\ pollMsg = Nil
    /\ polled = <<>>
    /\ currentContent = <<>>
    /\ messages = <<>>
    /\ streaming = FALSE
    /\ err = Nil
    /\ cancelled = FALSE
    /\ cclosed = FALSE
    /\ gaveUpAt = "never"
    /\ textarea = ""
    /\ autocomplete = NewAutocompleteState
    /\ ShowingPicker = FALSE
    /\ ShowingModelPicker = FALSE
    /\ escTimeoutActive = FALSE
    /\ escActionIsExit = FALSE
    /\ escElapsed = TRUE
    /\ escTicks = 0
    /\ history = NewHistoryNavigator
    /\ session = NewSession
    /\ quit = FALSE
    /\ lastInput = "none"
    /\ submitted = Nil

NextRetry ==
    \/ \E o \in Outcomes : doWithRetry(o)
    \/ doWithRetryCtxErr
    \/ sleepElapsed
    \/ sleepCancelled
    \/ cancelCtx

SpecRetry == InitRetry /\ [][NextRetry]_vars

\* the content parts of the messages followed: text parts, image parts
\* with and without an image, a part of another type
ContentPartValues ==
    {[Type |-> "text", Text |-> t, ImageURL |-> Nil] : t \in Texts}
    \cup {[Type |-> "image_url", Text |-> "", ImageURL |-> u] :
            u \in {Nil, [URL |-> ""], [URL |-> "data:image/png;base64,abc"]}}
    \cup {[Type |-> "", Text |-> "hello", ImageURL |-> [URL |-> "data:image/png;base64,abc"]]}

Messages ==
    {[Role |-> r, Content |-> c, ContentParts |-> ps] :
        r \in {"user", "assistant"}, c \in Texts,
        ps \in SeqsUpTo(ContentPartValues, MaxParts)}

\* One Message is encoded and the encoding is decoded into a zero Message,
\* as TestMessage_MarshalUnmarshal_RoundTrip does.
InitMessage ==
    /\ retry = Nil
    /\ call = "Chat"
    /\ attempt = 0
    /\ rpc = "returned"
    /\ ctxDone = FALSE
    /\ served = <<>>
    /\ lastErr = Nil
    /\ backoffs = <<>>
    /\ ret = [val |-> Nil, err |-> Nil]
    /\ req = Nil
    /\ jsonBody = Nil
    /\ sent = <<>>
    /\ closes = <<>>
    /\ original \in Messages
    /\ encoded = Nil
    /\ decoded = Nil
    /\ body = <<>>
    /\ bodyEnd = "eof"
    /\ pos = 0
    /\ rdone = FALSE
    /\ bodyCloses = 0
    /\ results = <<>>
    /\ closedAt = -1
    /\ readAll = <<>>
    /\ chunks = <<>>
    /\ chunksClosed = 0
    /\ errChan = <<>>
    /\ errClosed = 0
    /\ done = FALSE
    /\ reader = FALSE
    /\ ppc = "none"
    /\ pchunk = <<>>
    /\ perr = Nil
    /\ overlapped = FALSE
    /\ upc = "idle"
    /\ pollMsg = Nil
    /\ polled = <<>>
    /\ currentContent = <<>>
    /\ messages = <<>>
    /\ streaming = FALSE
    /\ err = Nil
    /\ cancelled = FALSE
    /\ cclosed = FALSE
    /\ gaveUpAt = "never"
    /\ textarea = ""
    /\ autocomplete = NewAutocompleteState
    /\ ShowingPicker = FALSE
    /\ ShowingModelPicker = FALSE
    /\ escTimeoutActive = FALSE
    /\ escActionIsExit = FALSE
    /\ escElapsed = TRUE
    /\ escTicks = 0
    /\ history = NewHistoryNavigator
    /\ session = NewSession
    /\ quit = FALSE
    /\ lastInput = "none"
    /\ submitted = Nil

NextMessage ==
    \/ MarshalMessage
    \/ UnmarshalMessage

SpecMessage == InitMessage /\ [][NextMessage]_vars

\* the requests of the callers followed: with either value of the Stream
\* flag, with a plain message or a message of two parts
Requests ==
    {[Model |-> "test-model", Messages |-> <<m>>, Stream |-> f] :
        f \in BOOLEAN,
        m \in {[Role |-> "user", Content |-> "hello", ContentParts |-> <<>>],
               [Role |-> "user", Content |-> "",
                ContentParts |-> <<[Type |-> "text", Text |-> "describe", ImageURL |-> Nil],
                                   [Type |-> "image_url", Text |-> "",
                                    ImageURL |-> [URL |-> "data:image/png;base64,abc"]]>>]}}

\* the caller closes the StreamReader that ChatStream returned
ReturnedReaderClose ==
    /\ rpc = "returned"
    /\ ret.val.type = "StreamReader"
    /\ Close

\* One client call from its first statement: Chat, ChatStream or ListModels
\* of a client with or without a retry configuration, on any request.
InitClient ==
    /\ retry \in RetryConfigs \cup {Nil}
    /\ call \in {"Chat", "ChatStream", "ListModels"}
    /\ attempt = 0
    /\ rpc = "call"
    /\ ctxDone = FALSE
    /\ served = <<>>
    /\ lastErr = Nil
    /\ backoffs = <<>>
    /\ ret = [val |-> Nil, err |-> Nil]
    /\ req \in Requests
    /\ jsonBody = Nil
    /\ sent = <<>>
    /\ closes = <<>>
    /\ original = Nil
    /\ encoded = Nil
    /\ decoded = Nil
    /\ body = <<>>
    /\ bodyEnd = "eof"
    /\ pos = 0
    /\ rdone = FALSE
    /\ bodyCloses = 0
    /\ results = <<>>
    /\ closedAt = -1
    /\ readAll = <<>>
    /\ chunks = <<>>
    /\ chunksClosed = 0
    /\ errChan = <<>>
    /\ errClosed = 0
    /\ done = FALSE
    /\ reader = FALSE
    /\ ppc = "none"
    /\ pchunk = <<>>
    /\ perr = Nil
    /\ overlapped = FALSE
    /\ upc = "idle"
    /\ pollMsg = Nil
    /\ polled = <<>>
    /\ currentContent = <<>>
    /\ messages = <<>>
    /\ streaming = FALSE
    /\ err = Nil
    /\ cancelled = FALSE
    /\ cclosed = FALSE
    /\ gaveUpAt = "never"
    /\ textarea = ""
    /\ autocomplete = NewAutocompleteState
    /\ ShowingPicker = FALSE
    /\ ShowingModelPicker = FALSE
    /\ escTimeoutActive = FALSE
    /\ escActionIsExit = FALSE
    /\ escElapsed = TRUE
    /\ escTicks = 0
    /\ history = NewHistoryNavigator
    /\ session = NewSession
    /\ quit = FALSE
    /\ lastInput = "none"
    /\ submitted = Nil

NextClient ==
    \/ clientCall
    \/ \E o \in Outcomes : doWithRetry(o)
    \/ doWithRetryCtxErr
    \/ sleepElapsed
    \/ sleepCancelled
    \/ cancelCtx
    \/ ReturnedReaderClose

SpecClient == InitClient /\ [][NextClient]_vars

\* every attempt of a call fails in the transport, under a configuration
\* with many retries
TransportError == [kind |-> "neterr", code |-> 0, body |-> "none"]

InitBackoff ==
    /\ retry \in LongRetryConfigs
    /\ call \in {"Chat", "ChatStream", "ListModels"}
    /\ attempt = 0
    /\ rpc = "loop"
    /\ ctxDone = FALSE
    /\ served = <<>>
    /\ lastErr = Nil
    /\ backoffs = <<>>
    /\ ret = [val |-> Nil, err |-> Nil]
    /\ req = TestRequest
    /\ jsonBody = RequestBody(call, req)
    /\ sent = <<>>
    /\ closes = <<>>
    /\ original = Nil
    /\ encoded = Nil
    /\ decoded = Nil
    /\ body = <<>>
    /\ bodyEnd = "eof"
    /\ pos = 0
    /\ rdone = FALSE
    /\ bodyCloses = 0
    /\ results = <<>>
    /\ closedAt = -1
    /\ readAll = <<>>
    /\ chunks = <<>>
    /\ chunksClosed = 0
    /\ errChan = <<>>
    /\ errClosed = 0
    /\ done = FALSE
    /\ reader = FALSE
    /\ ppc = "none"
    /\ pchunk = <<>>
    /\ perr = Nil
    /\ overlapped = FALSE
    /\ upc = "idle"
    /\ pollMsg = Nil
    /\ polled = <<>>
    /\ currentContent = <<>>
    /\ messages = <<>>
    /\ streaming = FALSE
    /\ err = Nil
    /\ cancelled = FALSE
    /\ cclosed = FALSE
    /\ gaveUpAt = "never"
    /\ textarea = ""
    /\ autocomplete = NewAutocompleteState
    /\ ShowingPicker = FALSE
    /\ ShowingModelPicker = FALSE
    /\ escTimeoutActive = FALSE
    /\ escActionIsExit = FALSE
    /\ escElapsed = TRUE
    /\ escTicks = 0
    /\ history = NewHistoryNavigator
    /\ session = NewSession
    /\ quit = FALSE
    /\ lastInput = "none"
    /\ submitted = Nil

NextBackoff ==
    \/ doWithRetry(TransportError)
    \/ sleepElapsed

SpecBackoff == InitBackoff /\ [][NextBackoff]_vars

\* One StreamReader, as NewStreamReader returns it, over any body of up to
\* MaxLines lines; its owner calls Next, Close and ReadAll in any order.
InitReader ==
    /\ retry = Nil
    /\ call = "ChatStream"
    /\ attempt = 0
    /\ rpc = "returned"
    /\ ctxDone = FALSE
    /\ served = <<>>
    /\ lastErr = Nil
    /\ backoffs = <<>>
    /\ ret = [val |-> Nil, err |-> Nil]
    /\ req = Nil
    /\ jsonBody = Nil
    /\ sent = <<>>
    /\ closes = <<>>
    /\ original = Nil
    /\ encoded = Nil
    /\ decoded = Nil
    /\ body \in SeqsUpTo(LineKinds, MaxLines)
    /\ bodyEnd \in {"eof", "err"}
    /\ pos = 0
    /\ rdone = FALSE
    /\ bodyCloses = 0
    /\ results = <<>>
    /\ closedAt = -1
    /\ readAll = <<>>
    /\ chunks = <<>>
    /\ chunksClosed = 0
    /\ errChan = <<>>
    /\ errClosed = 0
    /\ done = FALSE
    /\ reader = FALSE
    /\ ppc = "none"
    /\ pchunk = <<>>
    /\ perr = Nil
    /\ overlapped = FALSE
    /\ upc = "idle"
    /\ pollMsg = Nil
    /\ polled = <<>>
    /\ currentContent = <<>>
    /\ messages = <<>>
    /\ streaming = FALSE
    /\ err = Nil
    /\ cancelled = FALSE
    /\ cclosed = FALSE
    /\ gaveUpAt = "never"
    /\ textarea = ""
    /\ autocomplete = NewAutocompleteState
    /\ ShowingPicker = FALSE
    /\ ShowingModelPicker = FALSE
    /\ escTimeoutActive = FALSE
    /\ escActionIsExit = FALSE
    /\ escElapsed = TRUE
    /\ escTicks = 0
    /\ history = NewHistoryNavigator
    /\ session = NewSession
    /\ quit = FALSE
    /\ lastInput = "none"
    /\ submitted = Nil

NextReader ==
    \/ Next
    \/ Close
    \/ ReadAll

SpecReader == InitReader /\ [][NextReader]_vars

\* A chat generation: the chat model of a new session with no request in
\* progress; the draft holds the message the user is about to send.
InitStream ==
    /\ retry = Nil
    /\ call = "ChatStream"
    /\ attempt = 0
    /\ rpc = "returned"
    /\ ctxDone = FALSE
    /\ served = <<>>
    /\ lastErr = Nil
    /\ backoffs = <<>>
    /\ ret = [val |-> Nil, err |-> Nil]
    /\ req = Nil
    /\ jsonBody = Nil
    /\ sent = <<>>
    /\ closes = <<>>
    /\ original = Nil
    /\ encoded = Nil
    /\ decoded = Nil
    /\ body = <<>>
    /\ bodyEnd = "eof"
    /\ pos = 0
    /\ rdone = FALSE
    /\ bodyCloses = 0
    /\ results = <<>>
    /\ closedAt = -1
    /\ readAll = <<>>
    /\ chunks = <<>>
    /\ chunksClosed = 0
    /\ errChan = <<>>
    /\ errClosed = 0
    /\ done = FALSE
    /\ reader = FALSE
    /\ ppc = "none"
    /\ pchunk = <<>>
    /\ perr = Nil
    /\ overlapped = FALSE
    /\ upc = "idle"
    /\ pollMsg = Nil
    /\ polled = <<>>
    /\ currentContent = <<>>
    /\ messages = <<>>
    /\ streaming = FALSE
    /\ err = Nil
    /\ cancelled = FALSE
    /\ cclosed = FALSE
    /\ gaveUpAt = "never"
    /\ textarea = "q"
    /\ autocomplete = NewAutocompleteState
    /\ ShowingPicker = FALSE
    /\ ShowingModelPicker = FALSE
    /\ escTimeoutActive = FALSE
    /\ escActionIsExit = FALSE
    /\ escElapsed = TRUE
    /\ escTicks = 0
    /\ history = NewHistoryNavigator
    /\ session = NewSession
    /\ quit = FALSE
    /\ lastInput = "none"
    /\ submitted = Nil

ProducerStep ==
    \/ ProducerChatStreamFails
    \/ ProducerChatStream
    \/ SetReader
    \/ ProducerNext
    \/ SendChunk
    \/ SendChunkPanics
    \/ SendError
    \/ ProducerClose

PollStep ==
    \/ StartStreamCmd
    \/ waitForChunkIsDone
    \/ waitForChunkNotDone
    \/ waitForChunkChunk
    \/ waitForChunkClosed
    \/ waitForChunkErr
    \/ waitForChunkErrNil
    \/ UpdateStreamChunkMsg
    \/ UpdateStreamDoneMsg
    \/ UpdateStreamErrMsg

NextStream ==
    \/ UpdateKeyEnter
    \/ StartStreamCmd
    \/ waitForChunkIsDone
    \/ waitForChunkNotDone
    \/ waitForChunkChunk
    \/ waitForChunkClosed
    \/ waitForChunkErr
    \/ waitForChunkErrNil
    \/ UpdateStreamChunkMsg
    \/ UpdateStreamDoneMsg
    \/ UpdateStreamErrMsg
    \/ ProducerChatStreamFails
    \/ ProducerChatStream
    \/ SetReader
    \/ ProducerNext
    \/ SendChunk
    \/ SendChunkPanics
    \/ SendError
    \/ ProducerClose
    \/ ConsumerCancel
    \/ ConsumerClose

SpecStream == InitStream /\ [][NextStream]_vars

\* The Go scheduler runs the producer goroutine whenever it can take a
\* step; a read of the response body returns at the latest when the
\* stream client's timeout expires.  The commands of the poll chain run in
\* goroutines of their own and the event loop hands every message they
\* return to Update.
SpecStreamFair ==
    /\ SpecStream
    /\ WF_vars(ProducerStep)
    /\ WF_vars(PollStep)

\* The history navigator by itself, as its callers and its tests drive it:
\* Add, Up, Down and Reset in any order, on a navigator that starts empty.
HistoryEntries == {"a", "b", "c"}

HistoryDrafts == {"", " ", "q"}

InitHistory ==
    /\ retry = Nil
    /\ call = "ChatStream"
    /\ attempt = 0
    /\ rpc = "returned"
    /\ ctxDone = FALSE
    /\ served = <<>>
    /\ lastErr = Nil
    /\ backoffs = <<>>
    /\ ret = [val |-> Nil, err |-> Nil]
    /\ req = Nil
    /\ jsonBody = Nil
    /\ sent = <<>>
    /\ closes = <<>>
    /\ original = Nil
    /\ encoded = Nil
    /\ decoded = Nil
    /\ body = <<>>
    /\ bodyEnd = "eof"
    /\ pos = 0
    /\ rdone = FALSE
    /\ bodyCloses = 0
    /\ results = <<>>
    /\ closedAt = -1
    /\ readAll = <<>>
    /\ chunks = <<>>
    /\ chunksClosed = 0
    /\ errChan = <<>>
    /\ errClosed = 0
    /\ done = FALSE
    /\ reader = FALSE
    /\ ppc = "none"
    /\ pchunk = <<>>
    /\ perr = Nil
    /\ overlapped = FALSE
    /\ upc = "idle"
    /\ pollMsg = Nil
    /\ polled = <<>>
    /\ currentContent = <<>>
    /\ session = NewSession
    /\ messages = session.Messages
    /\ streaming = FALSE
    /\ err = Nil
    /\ cancelled = FALSE
    /\ cclosed = FALSE
    /\ gaveUpAt = "never"
    /\ textarea = ""
    /\ autocomplete = NewAutocompleteState
    /\ ShowingPicker = FALSE
    /\ ShowingModelPicker = FALSE
    /\ escTimeoutActive = FALSE
    /\ escActionIsExit = FALSE
    /\ escElapsed = TRUE
    /\ escTicks = 0
    /\ history = NewHistoryNavigator
    /\ quit = FALSE
    /\ lastInput = "none"
    /\ submitted = Nil

NavigatorAdd(entry) ==
    /\ Len(history.history) < MaxHistory
    /\ history' = HistoryAdd(history, entry)
    /\ UNCHANGED <<draftVars, overlayVars, escVars, session, quit, lastInput, submitted>>
    /\ UNCHANGED <<uiVars, backgroundVars>>

NavigatorUp(currentInput) ==
    /\ history' = HistoryUp(history, currentInput).h
    /\ UNCHANGED <<draftVars, overlayVars, escVars, session, quit, lastInput, submitted>>
    /\ UNCHANGED <<uiVars, backgroundVars>>

NavigatorDown ==
    /\ history' = HistoryDown(history).h
    /\ UNCHANGED <<draftVars, overlayVars, escVars, session, quit, lastInput, submitted>>
    /\ UNCHANGED <<uiVars, backgroundVars>>

NavigatorReset ==
    /\ history' = HistoryReset(history)
    /\ UNCHANGED <<draftVars, overlayVars, escVars, session, quit, lastInput, submitted>>
    /\ UNCHANGED <<uiVars, backgroundVars>>

NextHistory ==
    \/ \E entry \in HistoryEntries : NavigatorAdd(entry)
    \/ \E currentInput \in HistoryDrafts : NavigatorUp(currentInput)
    \/ NavigatorDown
    \/ NavigatorReset

SpecHistory == InitHistory /\ [][NextHistory]_vars

\* the input histories of the sessions that SetSession installs
SessionHistories == SeqsUpTo(HistoryEntries, 1)

\* HistoryNavigator.SetHistory, as Model.SetSession calls it with the
\* history of the session picked: the list is replaced, nothing else
NavigatorSetHistory(newHistory) ==
    /\ history' = [history EXCEPT !.history = newHistory]
    /\ UNCHANGED <<draftVars, overlayVars, escVars, session, quit, lastInput, submitted>>
    /\ UNCHANGED <<uiVars, backgroundVars>>

\* One HistoryNavigator whose list is also replaced through SetHistory.
NextNavigator ==
    \/ \E entry \in HistoryEntries : NavigatorAdd(entry)
    \/ \E currentInput \in HistoryDrafts : NavigatorUp(currentInput)
    \/ NavigatorDown
    \/ NavigatorReset
    \/ \E newHistory \in SessionHistories : NavigatorSetHistory(newHistory)

SpecNavigator == InitHistory /\ [][NextNavigator]_vars

\* The chat model by itself: the session is new or resumed, the keys, the
\* ESC timeout and the messages of the poll chain arrive in any order.
ResumedSession ==
    [History |-> <<"q">>,
     Messages |-> <<UserMessage("q"), AssistantMessage(<<"a">>)>>,
     Stored |-> TRUE, Dir |-> "writable"]

\* a session whose directory is d
InDir(s, d) == [s EXCEPT !.Dir = d]

InitChat ==
    /\ retry = Nil
    /\ call = "ChatStream"
    /\ attempt = 0
    /\ rpc = "returned"
    /\ ctxDone = FALSE
    /\ served = <<>>
    /\ lastErr = Nil
    /\ backoffs = <<>>
    /\ ret = [val |-> Nil, err |-> Nil]
    /\ req = Nil
    /\ jsonBody = Nil
    /\ sent = <<>>
    /\ closes = <<>>
    /\ original = Nil
    /\ encoded = Nil
    /\ decoded = Nil
    /\ body = <<>>
    /\ bodyEnd = "eof"
    /\ pos = 0
    /\ rdone = FALSE
    /\ bodyCloses = 0
    /\ results = <<>>
    /\ closedAt = -1
    /\ readAll = <<>>
    /\ chunks = <<>>
    /\ chunksClosed = 0
    /\ errChan = <<>>
    /\ errClosed = 0
    /\ done = FALSE
    /\ reader = FALSE
    /\ ppc = "none"
    /\ pchunk = <<>>
    /\ perr = Nil
    /\ overlapped = FALSE
    /\ upc = "idle"
    /\ pollMsg = Nil
    /\ polled = <<>>
    /\ currentContent = <<>>
    /\ session \in {NewSession, ResumedSession}
    /\ messages = session.Messages
    /\ streaming = FALSE
    /\ err = Nil
    /\ cancelled = FALSE
    /\ cclosed = FALSE
    /\ gaveUpAt = "never"
    /\ textarea = ""
    /\ autocomplete = NewAutocompleteState
    /\ ShowingPicker = FALSE
    /\ ShowingModelPicker = FALSE
    /\ escTimeoutActive = FALSE
    /\ escActionIsExit = FALSE
    /\ escElapsed = TRUE
    /\ escTicks = 0
    /\ history = [NewHistoryNavigator EXCEPT !.history = session.History]
    /\ quit = FALSE
    /\ lastInput = "none"
    /\ submitted = Nil

\* The chat model between generations: the keys that edit the draft, move
\* in the command list or in the input history, raise a picker or quit, with
\* more drafts than the chat specification can afford.  Nothing is submitted.
InitDraft ==
    /\ retry = Nil
    /\ call = "ChatStream"
    /\ attempt = 0
    /\ rpc = "returned"
    /\ ctxDone = FALSE
    /\ served = <<>>
    /\ lastErr = Nil
    /\ backoffs = <<>>
    /\ ret = [val |-> Nil, err |-> Nil]
    /\ req = Nil
    /\ jsonBody = Nil
    /\ sent = <<>>
    /\ closes = <<>>
    /\ original = Nil
    /\ encoded = Nil
    /\ decoded = Nil
    /\ body = <<>>
    /\ bodyEnd = "eof"
    /\ pos = 0
    /\ rdone = FALSE
    /\ bodyCloses = 0
    /\ results = <<>>
    /\ closedAt = -1
    /\ readAll = <<>>
    /\ chunks = <<>>
    /\ chunksClosed = 0
    /\ errChan = <<>>
    /\ errClosed = 0
    /\ done = FALSE
    /\ reader = FALSE
    /\ ppc = "none"
    /\ pchunk = <<>>
    /\ perr = Nil
    /\ overlapped = FALSE
    /\ upc = "idle"
    /\ pollMsg = Nil
    /\ polled = <<>>
    /\ currentContent = <<>>
    /\ session \in {NewSession, ResumedSession}
    /\ messages = session.Messages
    /\ streaming = FALSE
    /\ err = Nil
    /\ cancelled = FALSE
    /\ cclosed = FALSE
    /\ gaveUpAt = "never"
    /\ textarea = ""
    /\ autocomplete = NewAutocompleteState
    /\ ShowingPicker = FALSE
    /\ ShowingModelPicker = FALSE
    /\ escTimeoutActive = FALSE
    /\ escActionIsExit = FALSE
    /\ escElapsed = TRUE
    /\ escTicks = 0
    /\ history = [NewHistoryNavigator EXCEPT !.history = session.History]
    /\ quit = FALSE
    /\ lastInput = "none"
    /\ submitted = Nil

NextDraft ==
    \/ \E d \in AutocompleteDrafts : UpdateKeyRunes(d)
    \/ \E d \in AutocompleteDrafts : AutocompleteKeyOther(d)
    \/ AutocompleteKeyEsc
    \/ AutocompleteKeyUp
    \/ AutocompleteKeyDown
    \/ AutocompleteKeyEnter
    \/ UpdateKeyEnterCommand
    \/ UpdateKeyCtrlC
    \/ UpdateKeyEsc
    \/ UpdateKeyCtrlU
    \/ UpdateKeyUp
    \/ UpdateKeyDown
    \/ UpdateWindowSizeMsg
    \/ TimeElapses
    \/ UpdateEscTimeoutMsg
    \/ UpdateEscTimeoutMsgSkipped
    \/ PickerKeyEsc

SpecDraft == InitDraft /\ [][NextDraft]_vars

\* One AutocompleteState under its own operations, called in any order with
\* any input; lastInput names the last operation and ret is what the last
\* Select returned.
InitAutocomplete ==
    /\ retry = Nil
    /\ call = "ChatStream"
    /\ attempt = 0
    /\ rpc = "returned"
    /\ ctxDone = FALSE
    /\ served = <<>>
    /\ lastErr = Nil
    /\ backoffs = <<>>
    /\ ret = [val |-> Nil, err |-> Nil]
    /\ req = Nil
    /\ jsonBody = Nil
    /\ sent = <<>>
    /\ closes = <<>>
    /\ original = Nil
    /\ encoded = Nil
    /\ decoded = Nil
    /\ body = <<>>
    /\ bodyEnd = "eof"
    /\ pos = 0
    /\ rdone = FALSE
    /\ bodyCloses = 0
    /\ results = <<>>
    /\ closedAt = -1
    /\ readAll = <<>>
    /\ chunks = <<>>
    /\ chunksClosed = 0
    /\ errChan = <<>>
    /\ errClosed = 0
    /\ done = FALSE
    /\ reader = FALSE
    /\ ppc = "none"
    /\ pchunk = <<>>
    /\ perr = Nil
    /\ overlapped = FALSE
    /\ upc = "idle"
    /\ pollMsg = Nil
    /\ polled = <<>>
    /\ currentContent = <<>>
    /\ session = NewSession
    /\ messages = session.Messages
    /\ streaming = FALSE
    /\ err = Nil
    /\ cancelled = FALSE
    /\ cclosed = FALSE
    /\ gaveUpAt = "never"
    /\ textarea = ""
    /\ autocomplete = NewAutocompleteState
    /\ ShowingPicker = FALSE
    /\ ShowingModelPicker = FALSE
    /\ escTimeoutActive = FALSE
    /\ escActionIsExit = FALSE
    /\ escElapsed = TRUE
    /\ escTicks = 0
    /\ history = [NewHistoryNavigator EXCEPT !.history = session.History]
    /\ quit = FALSE
    /\ lastInput = "none"
    /\ submitted = Nil

\* the variables an operation of the AutocompleteState leaves alone
notAutocompleteVars ==
    <<retry, call, attempt, rpc, ctxDone, served, lastErr, backoffs,
      requestVars, codecVars, readerVars, sessionVars, producerVars, uiVars,
      consumerVars, overlayVars, escVars, history, session, quit, submitted>>

\* a.Update(input)
AutocompleteStateUpdate(input) ==
    /\ autocomplete' = AutocompleteUpdate(autocomplete, input)
    /\ textarea' = input
    /\ lastInput' = "Update"
    /\ UNCHANGED <<ret, notAutocompleteVars>>

\* a.Up()
AutocompleteStateUp ==
    /\ autocomplete' = AutocompleteUp(autocomplete)
    /\ lastInput' = "Up"
    /\ UNCHANGED <<textarea, ret, notAutocompleteVars>>

\* a.Down()
AutocompleteStateDown ==
    /\ autocomplete' = AutocompleteDown(autocomplete)
    /\ lastInput' = "Down"
    /\ UNCHANGED <<textarea, ret, notAutocompleteVars>>

\* a.Hide()
AutocompleteStateHide ==
    /\ autocomplete' = AutocompleteHide(autocomplete)
    /\ lastInput' = "Hide"
    /\ UNCHANGED <<textarea, ret, notAutocompleteVars>>

\* a.Select()
AutocompleteStateSelect ==
    /\ ret' = [val |-> [type |-> "string", value |-> AutocompleteSelect(autocomplete)],
               err |-> Nil]
    /\ lastInput' = "Select"
    /\ UNCHANGED <<textarea, autocomplete, notAutocompleteVars>>

NextAutocomplete ==
    \/ \E input \in AutocompleteDrafts : AutocompleteStateUpdate(input)
    \/ AutocompleteStateUp
    \/ AutocompleteStateDown
    \/ AutocompleteStateHide
    \/ AutocompleteStateSelect

SpecAutocomplete == InitAutocomplete /\ [][NextAutocomplete]_vars

StreamEventStep ==
    \/ StartStreamCmd
    \/ \E m \in StreamMsgs : waitForChunkReturns(m)
    \/ UpdateStreamChunkMsg
    \/ UpdateStreamDoneMsg
    \/ UpdateStreamErrMsg

EscTickStep ==
    \/ UpdateEscTimeoutMsg
    \/ UpdateEscTimeoutMsgSkipped

NextChat ==
    \/ UpdateKeyEnter
    \/ UpdateKeyEnterStreaming
    \/ UpdateKeyEnterCommand
    \/ UpdateKeyCtrlC
    \/ UpdateKeyEsc
    \/ UpdateKeyCtrlU
    \/ UpdateKeyUp
    \/ UpdateKeyDown
    \/ \E d \in Drafts : UpdateKeyRunes(d)
    \/ UpdateWindowSizeMsg
    \/ AutocompleteKeyEsc
    \/ AutocompleteKeyUp
    \/ AutocompleteKeyDown
    \/ AutocompleteKeyEnter
    \/ \E d \in Drafts : AutocompleteKeyOther(d)
    \/ TimeElapses
    \/ UpdateEscTimeoutMsg
    \/ UpdateEscTimeoutMsgSkipped
    \/ PickerKeyEsc
    \/ StartStreamCmd
    \/ \E m \in StreamMsgs : waitForChunkReturns(m)
    \/ UpdateStreamChunkMsg
    \/ UpdateStreamDoneMsg
    \/ UpdateStreamErrMsg

SpecChat == InitChat /\ [][NextChat]_vars

\* The timer of tea.Tick fires and the event loop hands its message, like
\* the messages of the poll chain, to Update.  No key press is ever due.
SpecChatFair ==
    /\ SpecChat
    /\ WF_vars(StreamEventStep)
    /\ WF_vars(EscTickStep)

\* The chat model with a session store that rejects every write: the
\* sessions directory cannot be written.
InitStore ==
    /\ retry = Nil
    /\ call = "ChatStream"
    /\ attempt = 0
    /\ rpc = "returned"
    /\ ctxDone = FALSE
    /\ served = <<>>
    /\ lastErr = Nil
    /\ backoffs = <<>>
    /\ ret = [val |-> Nil, err |-> Nil]
    /\ req = Nil
    /\ jsonBody = Nil
    /\ sent = <<>>
    /\ closes = <<>>
    /\ original = Nil
    /\ encoded = Nil
    /\ decoded = Nil
    /\ body = <<>>
    /\ bodyEnd = "eof"
    /\ pos = 0
    /\ rdone = FALSE
    /\ bodyCloses = 0
    /\ results = <<>>
    /\ closedAt = -1
    /\ readAll = <<>>
    /\ chunks = <<>>
    /\ chunksClosed = 0
    /\ errChan = <<>>
    /\ errClosed = 0
    /\ done = FALSE
    /\ reader = FALSE
    /\ ppc = "none"
    /\ pchunk = <<>>
    /\ perr = Nil
    /\ overlapped = FALSE
    /\ upc = "idle"
    /\ pollMsg = Nil
    /\ polled = <<>>
    /\ currentContent = <<>>
    /\ session \in {InDir(s, "readonly") : s \in {NewSession, ResumedSession}}
    /\ messages = session.Messages
    /\ streaming = FALSE
    /\ err = Nil
    /\ cancelled = FALSE
    /\ cclosed = FALSE
    /\ gaveUpAt = "never"
    /\ textarea = ""
    /\ autocomplete = NewAutocompleteState
    /\ ShowingPicker = FALSE
    /\ ShowingModelPicker = FALSE
    /\ escTimeoutActive = FALSE
    /\ escActionIsExit = FALSE
    /\ escElapsed = TRUE
    /\ escTicks = 0
    /\ history = [NewHistoryNavigator EXCEPT !.history = session.History]
    /\ quit = FALSE
    /\ lastInput = "none"
    /\ submitted = Nil

SpecStore == InitStore /\ [][NextChat]_vars

\* ------------------------------------------------------------------------
\* Claims about the retry loop
\* ------------------------------------------------------------------------

\* a failed attempt the client is expected to retry: a network error, or a
\* response with status 429, 503, 504 or any 5xx
RetryableFailure(o) ==
    \/ o.kind = "neterr"
    \/ o.kind = "resp" /\ (o.code \in {429, 503, 504} \/ (o.code >= 500 /\ o.code <= 599))

\* a 2xx response whose body decodes to a success
DecodableSuccess(o) ==
    o.kind = "resp" /\ o.code >= 200 /\ o.code <= 299 /\ o.body = "valid"

\* the error a caller expects for a failed attempt
ErrorOfAttempt(o, e) ==
    IF o.kind = "neterr"
    THEN e.type = "sending request"
    ELSE e.type = "APIError" /\ e.StatusCode = o.code

\* C1: with MaxRetries = M and the context not cancelled, after N <= M
\* retryable failures the client goes on to attempt N+1, and when that
\* attempt returns a decodable 2xx the call has returned its decoded
\* success after exactly N+1 attempts.
C1_RetryThenSuccess ==
    LET n == Len(served) IN
    (retry # Nil /\ ~ctxDone /\ n >= 1
        /\ \A i \in 1..(n - 1) : RetryableFailure(served[i]))
    =>  /\ (RetryableFailure(served[n]) /\ n <= retry.MaxRetries) => rpc # "returned"
        /\ (DecodableSuccess(served[n]) /\ n - 1 <= retry.MaxRetries) =>
                /\ rpc = "returned"
                /\ ret.err = Nil
                /\ ret.val # Nil
                /\ ret.val.code = served[n].code

\* C1 witness: two retryable failures of different kinds, then a success
\* returned at the third attempt.
C1_Witness ==
    /\ retry # Nil
    /\ ~ctxDone
    /\ rpc = "returned"
    /\ Len(served) = 3
    /\ served[1].kind = "neterr"
    /\ served[2].kind = "resp" /\ served[2].code = 500
    /\ DecodableSuccess(served[3])
    /\ ret.err = Nil

\* C2: with MaxRetries = M and the context not cancelled, when every
\* attempt fails retryably the client makes at most M+1 attempts, has
\* returned exactly when M+1 attempts were made, and returns the error
\* of attempt M+1.
C2_RetryExhausted ==
    LET n == Len(served) IN
    (retry # Nil /\ ~ctxDone /\ \A i \in 1..n : RetryableFailure(served[i]))
    =>  /\ n <= retry.MaxRetries + 1
        /\ (rpc = "returned") <=> (n = retry.MaxRetries + 1)
        /\ rpc = "returned" =>
                /\ ret.val = Nil
                /\ ErrorOfAttempt(served[n], ret.err)

\* C2 witness: MaxRetries = 2, three retryable failures, the call returned.
C2_Witness ==
    /\ retry # Nil
    /\ retry.MaxRetries = 2
    /\ ~ctxDone
    /\ rpc = "returned"
    /\ Len(served) = 3
    /\ \A i \in 1..3 : RetryableFailure(served[i])
    /\ ret.err # Nil


\* ------------------------------------------------------------------------
\* Claims about the StreamReader
\* ------------------------------------------------------------------------

\* a data record: a line with the data marker whose payload is JSON
IsRecord(line) == line.marker = "data: " /\ line.payload.form = "object"
IsSentinel(line) == line.marker = "data: " /\ line.payload.form = "[DONE]"
HasErrorField(line) == IsRecord(line) /\ line.payload.error # Nil
HasChoice(line) == IsRecord(line) /\ line.payload.choices # <<>>
IsMalformed(line) == line.marker = "data: " /\ line.payload.form = "{invalid}"

\* index of the first line satisfying P(_), or Len(b) + 1
FirstIndex(b, P(_)) ==
    IF \E i \in 1..Len(b) : P(b[i])
    THEN CHOOSE i \in 1..Len(b) : P(b[i]) /\ \A j \in 1..(i - 1) : ~P(b[j])
    ELSE Len(b) + 1

IsTerminal(line) == IsSentinel(line) \/ HasErrorField(line)

\* the chunk a record with a choice is expected to yield
ChunkFor(line) ==
    [chunk |-> [type |-> "chunk", Content |-> Head(line.payload.choices).content,
                Done |-> FALSE, FinishReason |-> Head(line.payload.choices).finish],
     err |-> Nil]

\* the chunks expected from the lines before the first terminal line
ExpectedChunks(b) ==
    LET t == FirstIndex(b, IsTerminal)
        kept == SelectSeq(SubSeq(b, 1, t - 1), HasChoice)
    IN  [i \in 1..Len(kept) |-> ChunkFor(kept[i])]

ExpectedDone == [chunk |-> [type |-> "chunk", Content |-> <<>>, Done |-> TRUE,
                            FinishReason |-> Nil],
                 err |-> Nil]

\* results agrees with the expected sequence, followed by (nil, nil) only
FollowsThenNil(expected) ==
    \A i \in 1..Len(results) :
        results[i] = IF i <= Len(expected) THEN expected[i]
                     ELSE [chunk |-> Nil, err |-> Nil]

RECURSIVE Concat(_)
Concat(ss) == IF ss = <<>> THEN <<>> ELSE Head(ss) \o Concat(Tail(ss))

\* C7: on a reader that is only read with Next, for a body whose first
\* terminal line is the [DONE] sentinel, the calls yield one chunk per
\* data record with a choice before the sentinel, in input order, with
\* the first choice's delta text and finish reason, then one done chunk,
\* then (nil, nil) for every later call.
C7_NextYieldsRecordsThenDone ==
    LET t == FirstIndex(body, IsTerminal) IN
    (bodyCloses = 0 /\ readAll = <<>> /\ t <= Len(body) /\ IsSentinel(body[t]))
    =>  FollowsThenNil(Append(ExpectedChunks(body), ExpectedDone))

\* C7 witness: records A and B with blank lines or other records around,
\* then the sentinel; four calls made, the last after the done chunk.
C7_Witness ==
    /\ bodyCloses = 0 /\ readAll = <<>>
    /\ Len(body) = 3
    /\ HasChoice(body[1]) /\ HasChoice(body[2]) /\ body[1] # body[2]
    /\ IsSentinel(body[3])
    /\ Len(results) = 4
    /\ results[3].chunk # Nil /\ results[3].chunk.Done
    /\ results[4] = [chunk |-> Nil, err |-> Nil]

\* C8: on a reader that is only read with Next, a call never stops at a
\* malformed payload that has lines after it, and for a body whose first terminal line is
\* a record with an error field the calls yield the chunks before it,
\* then that error with no chunk, then (nil, nil) for every later call.
C8_SkipMalformedStopOnError ==
    LET t == FirstIndex(body, IsTerminal) IN
    (bodyCloses = 0 /\ readAll = <<>>)
    =>  /\ (pos >= 1 /\ IsMalformed(body[pos])) => pos = Len(body)
        /\ (t <= Len(body) /\ HasErrorField(body[t])) =>
              FollowsThenNil(Append(ExpectedChunks(body),
                  [chunk |-> Nil,
                   err |-> [type |-> "APIError", Message |-> body[t].payload.error.message]]))

\* C8 witness: a malformed payload, then a record that was yielded, then
\* an error record that was returned, then a call that returned nothing.
C8_Witness ==
    /\ bodyCloses = 0 /\ readAll = <<>>
    /\ Len(body) = 3
    /\ IsMalformed(body[1]) /\ HasChoice(body[2]) /\ ~HasErrorField(body[2])
    /\ HasErrorField(body[3])
    /\ Len(results) = 3
    /\ results[1].chunk # Nil
    /\ results[2].err # Nil
    /\ results[3] = [chunk |-> Nil, err |-> Nil]

\* C9: for a body that ends with a transport EOF and has no terminal
\* line, Next (on a reader only read with Next) yields the chunks, then a
\* done chunk with no error; and ReadAll on a reader that was not closed
\* returns, with no error, the concatenated content of the chunks not
\* yet consumed.
C9_EofWithoutSentinelIsDone ==
    LET t == FirstIndex(body, IsTerminal)
        exp == ExpectedChunks(body)
    IN
    (t > Len(body) /\ bodyEnd = "eof")
    =>  /\ (bodyCloses = 0 /\ readAll = <<>>) =>
              FollowsThenNil(Append(exp, ExpectedDone))
        /\ \A k \in 1..Len(readAll) :
              ~readAll[k].closed =>
                /\ readAll[k].err = Nil
                /\ readAll[k].content =
                      Concat([i \in 1..(Len(exp) - readAll[k].at) |->
                                exp[readAll[k].at + i].chunk.Content])

\* C9 witness: a body of records without sentinel ended by EOF, partly
\* read with Next (the done chunk not yet reached), then read to its
\* end with ReadAll, which returned non-empty content.
C9_Witness ==
    /\ FirstIndex(body, IsTerminal) > Len(body)
    /\ bodyEnd = "eof"
    /\ bodyCloses = 0
    /\ Len(body) = 3
    /\ Len(results) = 1
    /\ Len(readAll) = 1
    /\ readAll[1].at = 1
    /\ readAll[1].content # <<>>
    /\ readAll[1].err = Nil

\* C10: Close can be called at any point and repeatedly; every Next call
\* made after the first Close returns (nil, nil), and the scanner never
\* moves again.
C10_NextAfterCloseIsNil ==
    closedAt # -1 =>
        /\ rdone
        /\ \A i \in (closedAt + 1)..Len(results) : results[i] = [chunk |-> Nil, err |-> Nil]

\* C10 witness: a chunk was read, Close was called twice with unread
\* records left, and a Next call was made after that.
C10_Witness ==
    /\ closedAt = 1
    /\ bodyCloses = 2
    /\ results[1].chunk # Nil /\ ~results[1].chunk.Done
    /\ pos < Len(body)
    /\ HasChoice(body[pos + 1])
    /\ Len(results) = 2

\* ------------------------------------------------------------------------
\* Claims: terminal responses of the transport client
\* ------------------------------------------------------------------------

\* a response that is neither a success nor retryable
NonRetryableFailure(o) ==
    o.kind = "resp" /\ ~(o.code >= 200 /\ o.code <= 299) /\ o.code < 500 /\ o.code # 429

\* a 2xx response whose decoded body carries an embedded error object
EmbeddedError(o) ==
    o.kind = "resp" /\ o.code >= 200 /\ o.code <= 299 /\ o.body = "embedded"

\* C19: under every retry configuration (none included), a response with a
\* non-2xx, non-retryable status ends the call at that attempt: when it is
\* the first response exactly one attempt was made, and the call has
\* returned an APIError with the status code of the response and, when the
\* body could be read, the body of the response.
C19_NonRetryableOneAttempt ==
    LET n == Len(served) IN
    /\ \A i \in 1..(n - 1) : ~NonRetryableFailure(served[i])
    /\ (n >= 1 /\ NonRetryableFailure(served[n])) =>
            /\ rpc = "returned"
            /\ ret.val = Nil
            /\ ret.err.type = "APIError"
            /\ ret.err.StatusCode = served[n].code
            /\ served[n].body # "readerr" => ret.err.Body = served[n].body

\* C19 witness: retries are enabled with attempts left, the first response
\* is a 404 with a body, and the call has returned.
C19_Witness ==
    /\ retry # Nil
    /\ retry.MaxRetries = MaxM
    /\ served = <<[kind |-> "resp", code |-> 404, body |-> "not found"]>>
    /\ rpc = "returned"
    /\ ret.err # Nil

\* C20: for Chat, a 2xx response whose body carries an embedded error ends
\* the call at that attempt with an error and no value; no attempt follows
\* it, whatever the retry configuration.
C20_EmbeddedErrorNotRetried ==
    LET n == Len(served) IN
    call = "Chat" =>
        /\ \A i \in 1..(n - 1) : ~EmbeddedError(served[i])
        /\ (n >= 1 /\ EmbeddedError(served[n])) =>
                /\ rpc = "returned"
                /\ ret.val = Nil
                /\ ret.err # Nil
                /\ ret.err.type = "APIError"

\* C20 witness: Chat with retries enabled and attempts left, the first
\* response is a 200 with an embedded error, and the call has returned.
C20_Witness ==
    /\ call = "Chat"
    /\ retry # Nil
    /\ retry.MaxRetries = MaxM
    /\ served = <<[kind |-> "resp", code |-> 200, body |-> "embedded"]>>
    /\ rpc = "returned"
    /\ ret.err # Nil

\* ------------------------------------------------------------------------
\* Claims: stream session
\* ------------------------------------------------------------------------

ProducerTerminated == ppc \in {"exited", "panicked"}

ConsumerGaveUp == cancelled \/ cclosed

\* the text of the non-empty deltas the Stream Reader yielded, in order
YieldedContent ==
    Concat([i \in 1..Len(results) |->
               IF results[i].chunk # Nil THEN results[i].chunk.Content ELSE <<>>])

\* the text of the assistant messages of the conversation, in order
AssistantContent ==
    Concat([i \in 1..Len(messages) |->
               IF messages[i].Role = "assistant" THEN messages[i].Content ELSE <<>>])

\* the generation is over for the UI: Update took a done or an error message
PollingEnded == upc = "idle" /\ polled # <<>>

LastPolled == polled[Len(polled)]

\* C3: once the consumer side has called Cancel or Close on the session,
\* at whatever point of the generation, the producer goroutine eventually
\* terminates (a panic of the goroutine counts as its end).
C3_ProducerTerminatesAfterCancel == ConsumerGaveUp ~> ProducerTerminated

\* C3 witness: the consumer cancelled while the producer was blocked
\* sending a chunk into the full channel, and the producer has ended since.
C3_Witness ==
    /\ cancelled
    /\ ~cclosed
    /\ gaveUpAt = "pushing"
    /\ ppc = "exited"

\* C4: in every state the done flag is set exactly when the chunk channel
\* and the error channel have each been closed once, and neither channel
\* is ever closed a second time, whoever calls Close or Cancel and when.
C4_ClosedExactlyOnce ==
    /\ chunksClosed = (IF done THEN 1 ELSE 0)
    /\ errClosed = (IF done THEN 1 ELSE 0)

\* C4 witness: the producer ended and closed the session, and the consumer
\* side has called both Cancel and Close on it as well.
C4_Witness ==
    /\ ppc = "exited"
    /\ cancelled
    /\ cclosed
    /\ done
    /\ chunksClosed = 1
    /\ errClosed = 1

\* C5: when a generation the consumer did not cancel ends without an error
\* and the UI has taken the done signal, the assistant text in the
\* conversation is the in-order concatenation of the non-empty deltas the
\* Stream Reader yielded.
C5_FinalMessageIsAllDeltas ==
    (/\ PollingEnded
     /\ LastPolled.type = "StreamDoneMsg"
     /\ ppc = "exited"
     /\ perr = Nil
     /\ ~ConsumerGaveUp)
        => AssistantContent = YieldedContent

\* C6: when the producer of a generation the consumer did not cancel ended
\* with a terminal error and the UI has stopped polling, the last message
\* the UI took is an error signal.
C6_ErrorEndsWithErrMsg ==
    (/\ PollingEnded
     /\ perr # Nil
     /\ ~ConsumerGaveUp)
        => LastPolled.type = "StreamErrMsg"

\* ------------------------------------------------------------------------
\* Claims: chat state machine
\* ------------------------------------------------------------------------

\* the text of the chunk messages Update has taken, in order
PolledContent ==
    Concat([i \in 1..Len(polled) |->
               IF polled[i].type = "StreamChunkMsg" THEN polled[i].Content ELSE <<>>])

\* the generation ended with a done message after at least one chunk
DoneAfterChunks ==
    /\ submitted # Nil
    /\ polled # <<>>
    /\ LastPolled.type = "StreamDoneMsg"
    /\ ChunkMsgsPolled >= 1
    /\ PolledContent # <<>>

\* C11: from Idle with conversation C, submitting a non-empty input u makes
\* the chat Streaming; once chunk messages c1..ck (k >= 1, not all empty)
\* and then a done message have been handled the chat is Idle, the
\* conversation is C, the user message u and one assistant message whose
\* text is c1..ck in order, and the saved input history contains u.
C11_SubmitChunksDone ==
    /\ (submitted # Nil /\ polled = <<>>) => streaming
    /\ DoneAfterChunks =>
        /\ ~streaming
        /\ messages = submitted.C \o <<UserMessage(submitted.u),
                                       AssistantMessage(PolledContent)>>
        /\ \E i \in 1..Len(session.History) : session.History[i] = submitted.u

\* a resumed conversation got a reply of two different chunks
C11_Witness ==
    /\ DoneAfterChunks
    /\ submitted.C # <<>>
    /\ PolledContent = <<"a", "b">>

\* C12: at most one generation is active: an Enter key handled while the
\* chat is Streaming leaves the conversation, the input history (of the
\* navigator and of the session), the stream session and the producer as
\* they are, and no poll command is started.
C12_EnterWhileStreamingDropped ==
    [][(streaming /\ lastInput # "KeyEnter" /\ lastInput' = "KeyEnter") =>
            UNCHANGED <<messages, history, session, sessionVars, producerVars,
                        upc, pollMsg, streaming, currentContent>>]_vars

\* Enter was pressed while the reply was arriving
C12_Witness ==
    /\ streaming
    /\ lastInput = "KeyEnter"
    /\ ppc # "none"
    /\ currentContent # <<>>

\* C13: once the ESC key has been handled while the chat is Streaming, the
\* chat comes to Idle (streaming cleared), whatever the producer does;
\* a run the user ends with Ctrl+C is left aside.
C13_CancelKeyEndsIdle ==
    (streaming /\ lastInput = "KeyEsc") ~> (~streaming \/ lastInput = "KeyCtrlC")

\* the overlays that are active
ActiveOverlays ==
    {o \in {"SessionPicker", "ModelPicker", "Autocomplete"} :
        \/ o = "SessionPicker" /\ ShowingPicker
        \/ o = "ModelPicker" /\ ShowingModelPicker
        \/ o = "Autocomplete" /\ autocomplete.visible}

\* C14: in every reachable state at most one overlay is active: the
\* session-picker flag, the model-picker flag and the visibility of the
\* autocomplete list are never true two at a time.
C14_AtMostOneOverlay == Cardinality(ActiveOverlays) <= 1

\* the model picker was opened by the command typed with the list's help
C14_Witness ==
    /\ ActiveOverlays = {"ModelPicker"}
    /\ autocomplete.filtered = <<CmdModels>>

\* C15: whenever an ESC press is pending (escTimeoutActive), the pending
\* flag is eventually cleared, by the timeout message or by a second ESC
\* press, also when a picker is opened or a message is submitted
\* meanwhile; a run in which the program exits is left aside.
C15_EscPendingReverts == escTimeoutActive ~> (~escTimeoutActive \/ quit)

\* C16: while the chat is Streaming no event changes the draft of the
\* textarea: every step taken from a Streaming state, the one that ends
\* the generation included, leaves the draft as it is.
C16_NoDraftEditWhileStreaming ==
    [][streaming => textarea' = textarea]_vars

\* a character key was handled while the reply was arriving
C16_Witness ==
    /\ streaming
    /\ lastInput = "KeyRunes"
    /\ currentContent # <<>>

\* the conversation as the last submit left it
AfterSubmit == submitted.C \o <<UserMessage(submitted.u)>>

\* the generation ended with an error message
ErrorEnded ==
    /\ submitted # Nil
    /\ polled # <<>>
    /\ LastPolled.type = "StreamErrMsg"

\* C17: once an error message has been handled while Streaming the chat is
\* Idle with the error recorded, the partial text is discarded and no
\* assistant message is appended: the conversation is the one before the
\* error, the submitted user message included.
C17_ErrorDiscardsPartial ==
    ErrorEnded =>
        /\ ~streaming
        /\ err = LastPolled.Err
        /\ err # Nil
        /\ currentContent = <<>>
        /\ messages = AfterSubmit

\* the error came after some text had arrived in a resumed conversation
C17_Witness ==
    /\ ErrorEnded
    /\ PolledContent # <<>>
    /\ submitted.C # <<>>

\* the generation ended with a done message
DoneEnded ==
    /\ submitted # Nil
    /\ polled # <<>>
    /\ LastPolled.type = "StreamDoneMsg"

\* C18: once a done message has been handled while Streaming the chat is
\* Idle; with an empty buffer no assistant message is appended to the
\* conversation in memory or to the session, with a non-empty buffer
\* exactly one is, to both.
C18_DoneAppendsOnlyNonEmpty ==
    DoneEnded =>
        /\ ~streaming
        /\ messages = IF PolledContent = <<>>
                      THEN AfterSubmit
                      ELSE Append(AfterSubmit, AssistantMessage(PolledContent))
        /\ session.Messages = messages

\* the stream ended before any text arrived
C18_Witness ==
    /\ DoneEnded
    /\ PolledContent = <<>>
    /\ ~streaming

\* ------------------------------------------------------------------------
\* Claims: cancellation and backoff of the retry loop
\* ------------------------------------------------------------------------

\* the errors that report the cancelled context: ctx.Err() returned by
\* sleep, and the wrapped one of the check at the top of the loop
ContextErrors == {"ctx.Err", "context error"}

\* C21: once the request context is cancelled no request is sent any more,
\* whether the cancellation came during a backoff sleep or before an
\* attempt, and the call can only return with the context error.
C21_CancelAbortsBackoff ==
    [][ctxDone =>
        /\ served' = served
        /\ rpc' = "returned" => ret'.err # Nil /\ ret'.err.type \in ContextErrors]_vars

\* the context was cancelled during a backoff sleep and the call returned
\* from the sleep
C21_Witness ==
    /\ ctxDone
    /\ rpc = "returned"
    /\ ret.err # Nil
    /\ ret.err.type = "ctx.Err"
    /\ Len(backoffs) = Len(served)
    /\ backoffs # <<>>

\* a 64-bit value at 128 bits, where the doublings followed cannot overflow
Wide(v) == [i \in 0..127 |-> IF i <= 63 THEN v[i] ELSE v[63]]

\* min(InitialBackoff * 2^att, MaxBackoff), computed at 128 bits
ExpectedBackoff(att) ==
    LET x == Doubled(Wide(retry.InitialBackoff), att)
    IN  IF Gt(x, Wide(retry.MaxBackoff)) THEN Wide(retry.MaxBackoff) ELSE x

\* C22: the backoff slept after the failed attempt of index a is
\* min(InitialBackoff * 2^a, MaxBackoff) for every 0 <= a < MaxRetries, so
\* the backoffs of a call never decrease and never exceed MaxBackoff.
C22_BackoffIsCappedDoubling ==
    retry # Nil =>
        \A k \in 1..Len(backoffs) :
            /\ k - 1 < retry.MaxRetries
            /\ Wide(backoffs[k]) = ExpectedBackoff(k - 1)
            /\ ~Gt(backoffs[k], retry.MaxBackoff)
            /\ k > 1 => ~Gt(backoffs[k - 1], backoffs[k])

\* ------------------------------------------------------------------------
\* Claims: input history
\* ------------------------------------------------------------------------

\* no two equal adjacent entries
NoAdjacentDuplicates(s) == \A i \in 1..(Len(s) - 1) : s[i] # s[i + 1]

\* C24: the input history persisted in the session never holds two equal
\* adjacent entries, whatever was submitted.
C24_SessionHistorySkipsDuplicate == NoAdjacentDuplicates(session.History)

\* C23: whatever the sequence of Add calls on a new navigator, its history
\* never holds two equal adjacent entries: an entry equal to the last one is
\* not added, the same entry after a different one is.
C23_AddSuppressesDuplicates ==
    [][/\ NoAdjacentDuplicates(history.history)
       /\ NoAdjacentDuplicates(history'.history)
       /\ \A e \in HistoryEntries :
            history' = HistoryAdd(history, e) =>
                history'.history =
                    IF history.history # <<>>
                       /\ history.history[Len(history.history)] = e
                    THEN history.history
                    ELSE Append(history.history, e)]_vars

\* an entry occurs twice, with a different one in between
C23_Witness ==
    /\ Len(history.history) = 3
    /\ history.history[1] = history.history[3]

\* the navigator and the entry returned after k calls of Up, the first one
\* with the draft d, the later ones with what the previous call returned
RECURSIVE UpTimes(_, _, _)
UpTimes(h, d, k) ==
    IF k = 1 THEN HistoryUp(h, d)
    ELSE LET prev == UpTimes(h, d, k - 1) IN HistoryUp(prev.h, prev.entry)

\* the navigator and the entry returned after k >= 1 calls of Down
RECURSIVE DownTimes(_, _)
DownTimes(h, k) ==
    IF k = 1 THEN HistoryDown(h) ELSE HistoryDown(DownTimes(h, k - 1).h)

\* the same walks with the keys of the chat model, on the navigator and the
\* value of the textarea
RECURSIVE KeyUpTimes(_, _, _)
KeyUpTimes(h, value, k) ==
    IF k = 0 THEN [h |-> h, value |-> value]
    ELSE LET prev == KeyUpTimes(h, value, k - 1) IN KeyUpOutside(prev.h, prev.value)

RECURSIVE KeyDownTimes(_, _, _)
KeyDownTimes(h, value, k) ==
    IF k = 0 THEN [h |-> h, value |-> value]
    ELSE LET prev == KeyDownTimes(h, value, k - 1) IN KeyDownOutside(prev.h, prev.value)

\* the 1-based position of the entry shown after k calls of Up on n entries
ShownAfterUps(n, k) == IF k < n THEN n - k + 1 ELSE 1

\* C25: on a navigator that is not browsing, with n >= 1 entries and the
\* draft d, the k-th Up returns the k-th newest entry and an Up at the
\* oldest entry stays there; from the k-th newest entry, k - 1 Downs return
\* the newer entries in turn and the k-th Down returns d and leaves the
\* history (index -1).  The up and down keys of the chat do the same to
\* the textarea when the draft is blank.
C25_RecallWalk ==
    LET hs == history.history
        n == Len(hs)
        h0 == [history EXCEPT !.index = -1]
    IN  n >= 1 =>
        \A d \in HistoryDrafts :
            /\ \A k \in 1..(n + 1) :
                /\ UpTimes(h0, d, k).entry = hs[ShownAfterUps(n, k)]
                /\ UpTimes(h0, d, k).h.index = ShownAfterUps(n, k) - 1
                /\ UpTimes(h0, d, k).h.draft = d
            /\ \A k \in 1..n :
                LET up == UpTimes(h0, d, k).h IN
                /\ \A j \in 1..(k - 1) :
                    /\ DownTimes(up, j).entry = hs[n - k + 1 + j]
                    /\ DownTimes(up, j).h.index = n - k + j
                /\ DownTimes(up, k).entry = d
                /\ DownTimes(up, k).h.index = -1
            /\ TrimSpace(d) = "" =>
                \A k \in 1..n :
                    LET up == KeyUpTimes(h0, d, k) IN
                    /\ up.value = hs[ShownAfterUps(n, k)]
                    /\ \A j \in 1..(k - 1) :
                        KeyDownTimes(up.h, up.value, j).value = hs[n - k + 1 + j]
                    /\ KeyDownTimes(up.h, up.value, k).value = d
                    /\ KeyDownTimes(up.h, up.value, k).h.index = -1

\* three entries, the oldest one reached from a draft that was kept
C25_Witness ==
    /\ Len(history.history) = 3
    /\ history.index = 0
    /\ history.draft = " "

\* ------------------------------------------------------------------------
\* Claims: command list, commands and the ESC key
\* ------------------------------------------------------------------------

\* the draft begins with "/", has no space and is not a known command
BeginsCommand(d) ==
    /\ StrHasPrefix(d, "/")
    /\ ~ContainsSpace(d)
    /\ \A i \in 1..Len(AvailableCommands) : AvailableCommands[i] # d

\* ... and at least one known command begins with it
BeginsKnownCommand(d) ==
    /\ BeginsCommand(d)
    /\ \E i \in 1..Len(AvailableCommands) : StrHasPrefix(AvailableCommands[i], d)

\* the step is a key that the textarea handled
TextareaTookKey ==
    \E d \in AutocompleteDrafts : UpdateKeyRunes(d) \/ AutocompleteKeyOther(d)

\* while the list is shown, up and down move the selection inside the list
\* and Enter puts the selected command into the draft, hides the list and
\* submits nothing
ListKeysSelect ==
    /\ AutocompleteKeyUp =>
        /\ autocomplete'.index =
              IF autocomplete.index > 0 THEN autocomplete.index - 1 ELSE 0
        /\ autocomplete'.visible
        /\ textarea' = textarea
    /\ AutocompleteKeyDown =>
        /\ autocomplete'.index =
              IF autocomplete.index < Len(autocomplete.filtered) - 1
              THEN autocomplete.index + 1
              ELSE autocomplete.index
        /\ autocomplete'.visible
        /\ textarea' = textarea
    /\ AutocompleteKeyEnter =>
        /\ autocomplete.index < Len(autocomplete.filtered)
        /\ textarea' = autocomplete.filtered[autocomplete.index + 1]
        /\ ~autocomplete'.visible
        /\ UNCHANGED <<messages, session, history, streaming, upc>>

EnterKey ==
    \/ UpdateKeyEnter
    \/ UpdateKeyEnterCommand
    \/ UpdateKeyEnterStreaming
    \/ AutocompleteKeyEnter

\* the draft is one of the commands that AvailableCommands offers
DraftIsOfferedCommand ==
    \E i \in 1..Len(AvailableCommands) : AvailableCommands[i] = TrimSpace(textarea)

IdleNoOverlay ==
    /\ ~streaming
    /\ ~escTimeoutActive
    /\ ~PickerShowing
    /\ ~autocomplete.visible

\* an ESC press is pending: its flag is set and 2 s have not passed
EscPending == escTimeoutActive /\ ~escElapsed

C29_EscClearsOnSecondPress ==
    [][/\ (UpdateKeyEsc /\ IdleNoOverlay /\ TrimSpace(textarea) # "") =>
            /\ textarea' = textarea
            /\ escTimeoutActive' /\ ~escActionIsExit' /\ ~escElapsed'
            /\ escTicks' = escTicks + 1
            /\ UNCHANGED <<history, quit, messages, session, streaming>>
       /\ (UpdateKeyEsc /\ EscPending /\ ~escActionIsExit) =>
            /\ textarea' = ""
            /\ history' = HistoryReset(history)
            /\ ~escTimeoutActive'
            /\ ~quit'
       /\ (UpdateEscTimeoutMsg /\ escTimeoutActive /\ ~escActionIsExit) =>
            /\ escElapsed'
            /\ ~escTimeoutActive'
            /\ textarea' = textarea]_vars


\* ------------------------------------------------------------------------
\* Claims: failures of the session store

\* a submit whose last write of the session file failed
SaveFailedAtSubmit == UpdateKeyEnter /\ SaveErr(session) # Nil

\* the finalization of a non-empty assistant turn whose write failed
SaveFailedAtDone ==
    UpdateStreamDoneMsg /\ currentContent # <<>> /\ SaveErr(session) # Nil

\* the transition of a successful submit, and the user message in the
\* conversation and in the session in memory
SubmitTransition ==
    LET m == UserMessage(TrimSpace(textarea)) IN
        /\ streaming' /\ ~quit' /\ upc' = "cmd"
        /\ messages' = Append(messages, m)
        /\ session'.Messages = Append(session.Messages, m)

\* the transition of a successful finalization, and the assistant message
\* in the conversation and in the session in memory
DoneTransition ==
    LET m == AssistantMessage(currentContent) IN
        /\ ~streaming' /\ ~quit' /\ upc' = "idle"
        /\ messages' = Append(messages, m)
        /\ session'.Messages = Append(session.Messages, m)

\* the failure is shown: by the session warning or by the error line
SaveFailureReported == sessionWarning \/ err # Nil

\* C30: a write failure of the session store during submit or during the
\* finalization of an assistant turn is reported and is not fatal: the
\* model makes the transition of a successful save and the conversation
\* in memory holds the message whose save failed.
C30_SaveFailureReportedNonFatal ==
    [][ /\ SaveFailedAtSubmit => SaveFailureReported' /\ SubmitTransition
        /\ SaveFailedAtDone => SaveFailureReported' /\ DoneTransition ]_vars


\* ------------------------------------------------------------------------
\* Claims: wire format of a Message

\* the strings of a message: its role, its content, the texts and the
\* image URLs of its parts
StringsOf(m) ==
    {m.Role, m.Content}
    \cup {m.ContentParts[i].Type : i \in 1..Len(m.ContentParts)}
    \cup {m.ContentParts[i].Text : i \in 1..Len(m.ContentParts)}
    \cup {m.ContentParts[i].ImageURL.URL :
            i \in {k \in 1..Len(m.ContentParts) : m.ContentParts[k].ImageURL # Nil}}

\* every string of the message is valid UTF-8
ValidUTF8(m) == \A s \in StringsOf(m) : s # "\\xff"

\* the positions of the parts of type text
TextParts(parts) == {i \in 1..Len(parts) : parts[i].Type = "text"}

\* the content is the text of the first part of type text, if there is one
Mirrored(m) ==
    \A i \in TextParts(m.ContentParts) :
        (\A k \in TextParts(m.ContentParts) : i <= k) => m.Content = m.ContentParts[i].Text

\* what the round trip promises of a decoded message
RoundTrip ==
    IF Len(original.ContentParts) = 0
    THEN /\ decoded.Role = original.Role
         /\ decoded.Content = original.Content
         /\ decoded.ContentParts = <<>>
    ELSE /\ decoded.ContentParts = original.ContentParts
         /\ Mirrored(decoded)

\* C31: decoding the encoding of a message with only plain text yields the
\* same role and content and no content parts; decoding the encoding of a
\* message with content parts yields an equal list of parts, the text of
\* the first part of type text mirrored into the plain content.
C31_MessageRoundTrip == decoded # Nil => RoundTrip

\* C31, amended: the same for a message whose strings are valid UTF-8.
C31_ValidMessageRoundTrip == (decoded # Nil /\ ValidUTF8(original)) => RoundTrip

\* a message with an image part before its text part and another plain
\* content has been encoded and decoded
C31_Witness ==
    /\ decoded # Nil
    /\ ValidUTF8(original)
    /\ Len(original.ContentParts) = 2
    /\ original.ContentParts[1].Type = "image_url"
    /\ original.ContentParts[2].Type = "text"
    /\ original.Content = "describe"
    /\ decoded.Content = "hello"


\* ------------------------------------------------------------------------
\* Claims: the client's responses and requests

\* the response of attempt i was handed to the StreamReader that the call
\* returned
HandedOver(i) ==
    /\ call = "ChatStream"
    /\ isSuccessStatus(served[i].code)
    /\ i = Len(served)
    /\ ret.val.type = "StreamReader"

\* C32: every response obtained during a client call is released exactly
\* once by the client or handed over: the body of a non-2xx response and
\* of a 2xx response of Chat or ListModels has been closed once when the
\* iteration ends, the body of the 2xx response of ChatStream is not
\* closed by the client, belongs to the StreamReader returned, and every
\* Close of that reader closes it.
C32_ResponseBodyReleasedOnce ==
    /\ Len(closes) = Len(served)
    /\ \A i \in 1..Len(served) :
        IF served[i].kind = "neterr" THEN closes[i] = 0
        ELSE IF HandedOver(i) THEN closes[i] = 0 /\ (rdone <=> bodyCloses > 0)
        ELSE closes[i] = 1
    /\ bodyCloses > 0 => HandedOver(Len(served))

\* ChatStream got a 2xx response after a 503 whose body it closed, and the
\* caller has closed the reader
C32_Witness ==
    /\ Len(served) = 2
    /\ served[1].code = 503
    /\ closes = <<1, 0>>
    /\ HandedOver(2)
    /\ bodyCloses = 1


\* the stream member of a body sent
StreamFlagOf(b) == b.members["stream"].value

\* C33: Chat always sends stream=false and ChatStream always sends
\* stream=true, whatever the caller's Stream flag is; no step of the call
\* changes the caller's ChatRequest; every attempt of one call sends the
\* same body.
C33_StreamFlagForcedRequestUntouched ==
    /\ [](\A i \in 1..Len(sent) :
            /\ call = "Chat" => StreamFlagOf(sent[i]) = FALSE
            /\ call = "ChatStream" => StreamFlagOf(sent[i]) = TRUE
            /\ sent[i] = sent[1])
    /\ [][req' = req]_vars

\* Chat, called with the Stream flag set, has sent its body twice, and
\* ChatStream is covered by the same state with the flag clear
C33_Witness ==
    /\ Len(sent) = 2
    /\ call \in {"Chat", "ChatStream"}
    /\ req.Stream = (call = "Chat")
    /\ StreamFlagOf(sent[2]) = ~req.Stream
    /\ Len(req.Messages[1].ContentParts) = 2


\* ------------------------------------------------------------------------
\* Claims: keys and overlays of the chat model

\* Update on a Ctrl+C key: its own case of the key switch or, while the
\* command list shows, the default case of updateAutocomplete, where the
\* textarea takes the key and leaves the draft as it is
KeyCtrlC == UpdateKeyCtrlC \/ AutocompleteKeyOther(textarea)

\* C34: Ctrl+C quits the chat from every state of the chat view in which
\* no picker shows: idle, streaming, ESC pending, history browsing and
\* command list showing.
C34_CtrlCQuitsEverywhere == Updating => ENABLED (KeyCtrlC /\ quit')


\* ------------------------------------------------------------------------
\* Claims: the producer and an external Close

\* C35: no interleaving of the producer with an external Close of the same
\* StreamState leads to a send on a closed channel: once the session is
\* closed, by either side, the producer makes no SendChunk and no SendError
\* on it.
C35_NoSendAfterClose ==
    /\ [](ppc # "panicked")
    /\ [][(SendChunk \/ SendChunkPanics \/ SendError) => ~done]_vars


\* ------------------------------------------------------------------------
\* Claims: the recall index and the command list's selection

\* C36: after any sequence of SetHistory, Add, Up, Down and Reset, also
\* when SetHistory replaces the list during recall, the recall index is -1
\* or a valid index into the current list, and Up never reads outside it.
C36_RecallIndexInRange ==
    /\ history.index = -1 \/ history.index \in 0..(Len(history.history) - 1)
    /\ \A currentInput \in HistoryDrafts :
        HistoryUp(history, currentInput).entry # IndexOutOfRange


\* ------------------------------------------------------------------------
\* Claims: the primary state of the chat

\* the three primary states, read from the model's two flags
StateIdle == ~streaming /\ ~escTimeoutActive
StateStreaming == streaming /\ ~escTimeoutActive
StateEscPending == escTimeoutActive /\ ~streaming

\* C37: in every reachable state the chat is in exactly one of Idle,
\* Streaming and EscPending; the streaming flag and the ESC-pending flag
\* are never both set.
C37_ExactlyOnePrimaryState ==
    /\ StateIdle \/ StateStreaming \/ StateEscPending
    /\ ~(streaming /\ escTimeoutActive)


\* C38: an EscTimeoutMsg reverts only the pending state of the press that
\* scheduled it: an EscTimeoutMsg handled while a press is pending and its
\* 2 s are not over leaves the press pending; the press is reverted by its
\* own tick, the last one in flight, when the 2 s are over.
C38_TimeoutRevertsOwnPressOnly ==
    [][(UpdateEscTimeoutMsg /\ EscPending) =>
            \/ escTimeoutActive' /\ ~escElapsed'
            \/ escTicks = 1 /\ escElapsed']_vars


\* ------------------------------------------------------------------------
\* Claims: the chat model behind a picker

\* the fields of Model that Update works on, the picker flags aside
ChatModelFields ==
    <<textarea, autocomplete, history, session, messages, currentContent,
      streaming, err, escTimeoutActive, escActionIsExit>>

\* no command was returned: no tea.Quit, no tea.Tick, no StartStream and no
\* further poll of the stream
NoCmdIssued ==
    /\ quit' = quit
    /\ escTicks' <= escTicks
    /\ upc' # upc => upc' \notin {"cmd", "poll"}

\* C39: while the session-picker or the model-picker flag is set, every
\* event (key, stream event, timer) leaves the chat state as it is:
\* conversation, draft, recall cursor, autocomplete, streaming and ESC
\* state are unchanged and no command is issued; the flags themselves are
\* changed by the parent only.
C39_PickerFreezesChat ==
    [][PickerShowing =>
            /\ UNCHANGED ChatModelFields
            /\ NoCmdIssued
            /\ UNCHANGED overlayVars \/ PickerKeyEsc]_vars

\* a picker is shown and the tick of a pending ESC press was delivered
\* behind it: the press is still recorded as pending
C39_Witness ==
    /\ PickerShowing
    /\ escTimeoutActive
    /\ escElapsed
    /\ escTicks = 0


\* ------------------------------------------------------------------------
\* Claims: the selection of the command list

\* max(0, n)
Max0(n) == IF n > 0 THEN n ELSE 0

\* C40: after any sequence of Update, Up, Down, Hide (and Select) the
\* selection index is between 0 and max(0, len(filtered)-1); Up at the top
\* and Down at the bottom leave the state unchanged; an Update whose list
\* no longer reaches the index clamps it to the last entry and any other
\* Update keeps it; Select returns the name of filtered[index], or the
\* empty string when nothing is filtered.
C40_SelectionIndexInRange ==
    /\ [](/\ autocomplete.index >= 0
          /\ autocomplete.index <= Max0(Len(autocomplete.filtered) - 1))
    /\ [][/\ (AutocompleteStateUp /\ autocomplete.index = 0) =>
                autocomplete' = autocomplete
          /\ (AutocompleteStateDown
                /\ autocomplete.index >= Len(autocomplete.filtered) - 1) =>
                autocomplete' = autocomplete
          /\ (\E input \in AutocompleteDrafts : AutocompleteStateUpdate(input)) =>
                autocomplete'.index =
                    IF autocomplete.index >= Len(autocomplete'.filtered)
                    THEN Max0(Len(autocomplete'.filtered) - 1)
                    ELSE autocomplete.index
          /\ AutocompleteStateSelect =>
                ret'.val.value =
                    IF autocomplete.filtered = <<>> THEN ""
                    ELSE autocomplete.filtered[autocomplete.index + 1]]_vars

\* Select returned the last of the four commands, then Down was called at
\* the bottom of the list and the selection stayed there
C40_Witness ==
    /\ lastInput = "Down"
    /\ textarea = "/"
    /\ Len(autocomplete.filtered) = 4
    /\ autocomplete.index = 3
    /\ ret.val = [type |-> "string", value |-> CmdResume]

====
